---------------------------- MODULE Spec2Model ----------------------------
(***************************************************************************)
(* Model of HttpClient.invoke (src/src/index.ts): one call of invoke on    *)
(* one client, the cancellation token it is given, and the node http       *)
(* request/response objects whose events drive the call's handlers.        *)
(*                                                                         *)
(* Every action is one turn of the event loop: the synchronous body of     *)
(* invoke, or one event (socket, response, data, end, error, timeout,      *)
(* cancel) together with the whole handler the code registered for it.     *)
(***************************************************************************)
EXTENDS Integers, Naturals, Sequences, FiniteSets, TLC

(***************************************************************************)
(* Bounds and input domains                                                *)
(***************************************************************************)
\* most "data" events one response delivers
MaxChunks == 2

\* HttpClient.DEFAULT_TIMEOUT
DEFAULT_TIMEOUT == 60000

\* opts.timeout as given to the constructor; 0 stands for "not given"
\* (undefined and 0 are both falsy in `opts.timeout || DEFAULT_TIMEOUT`)
TimeoutOpts == {0, 50}

Methods == {"GET", "POST"}
Urls == {"http://127.0.0.1:65535/", "ftp://127.0.0.1/"}

\* URLs whose protocol http.request refuses with a TypeError
\* (ERR_INVALID_PROTOCOL) thrown from the call itself
UnsupportedUrls == {"ftp://127.0.0.1/"}

\* an optional value: undefined, or defined with a value
Undefined == [defined |-> FALSE]
Some(v) == [defined |-> TRUE, value |-> v]

\* header mappings are sets of <<name, value>> pairs; {} is the empty mapping
NoHeaders == {}
RequestHeaders == {Undefined, Some({<<"test", "test">>})}
\* Buffers are sequences of bytes
EmptyBuffer == << >>
RequestBodies == {Undefined, Some(<<7>>)}
Requests == [url : Urls, method : Methods, headers : RequestHeaders, body : RequestBodies]

StatusCodes == {200, 301, 399, 400, 404}
StatusMessages == {"", "Fake"}
ResponseHeaders == {{<<"content-type", "text/plain">>}}
Chunks == {<<1>>, <<2>>}

\* errors the transport raises by itself, and the ones an abort raises
TransportErrors == {"ECONNREFUSED", "ECONNRESET"}
AbortErrors == {"socket hang up", "aborted"}
NoError == "undefined"

\* a token that checks its flag honestly ("ok"), and one that notifies its
\* listeners before its flag is raised ("broken": the check inside a
\* listener does not throw)
\* "undefined": invoke is called without a token
TokenKinds == {"ok", "broken", "undefined"}

(***************************************************************************)
(* State                                                                   *)
(***************************************************************************)
VARIABLES
    timeoutOpt,         \* opts.timeout as given to the constructor
    requestTimeout,     \* this._requestTimeout
    tokenKind,          \* which implementation of CancellationToken is used
    tokenCancelled,     \* the flag throwIfCancellationRequested reads
    cancelRequested,    \* the token source's cancel() has run
    listeners,          \* cancel listeners registered on the token
    addCount,           \* calls of addCancelListener
    removeCount,        \* calls of removeCancelListener
    called,             \* invoke has been called
    req,                \* the Request given to invoke
    resolved,           \* let resolved
    isConnectTimeout,   \* let isConnectTimeout
    outcome,            \* the promise: pending, or what it settled with
    settleCalls,        \* calls of resolve / reject made by the code
    request,            \* the http.ClientRequest
    response,           \* the http.IncomingMessage
    responseDataChunks, \* const responseDataChunks
    delivered,          \* the chunks the transport delivered, in order
    preCancelled,       \* history: invoke found the token cancelled
    cancelledInFlight,  \* history: the listener fired on an unresolved call
    timerPhase,         \* history: response state when the timer fired
    errorUnresolved,    \* history: transport error handled while unresolved
    endedUnresolved,    \* history: "end" handled while unresolved: "never", or
                        \* "completed" (by the peer) / "cutOff" (socket closed)
    lateEvent           \* history: a completion handler ran after resolution

\* HttpClient.createClientRequest: the client's dispatch configuration and the
\* options it handed to the transport
VARIABLES
    proxyOpts,          \* this._proxyOpts
    sslOpts,            \* this._sslOpts
    dispatched,         \* the Request createClientRequest was called with
    reqOpts,            \* the reqOpts object passed to http.request / https.request
    transport           \* "http" | "https": the module whose request() was called

dispatchVars == <<proxyOpts, sslOpts, dispatched, reqOpts, transport>>

\* the legacy WebClient (src/src/WebClient.ts and its later revision
\* src/unnamed/part_001) and one call of its invoke
VARIABLES
    wcVariant,          \* which revision of WebClient is in use
    wcRequestTimeout,   \* this._requestTimeout: 0 stands for null
    wcHasToken,         \* a cancellationToken was passed to invoke
    wcCancelled,        \* the token has been cancelled
    wcListeners,        \* cancel listeners registered on the token
    wcCalled,           \* invoke has been called
    wcRequest,          \* the http.ClientRequest
    wcResponse,         \* the http.IncomingMessage
    wcResponseDataChunks, \* const responseDataChunks: Array<Buffer>
    wcIsConnecTimeout,  \* let isConnecTimeout (part_001)
    wcOutcome           \* the promise: pending, or what it settled with

legacyVars == <<wcVariant, wcRequestTimeout, wcHasToken, wcCancelled, wcListeners,
                wcCalled, wcRequest, wcResponse, wcResponseDataChunks,
                wcIsConnecTimeout, wcOutcome>>

\* WebApiClient (src/unnamed/part_002 and its earlier revision, the first
\* class of src/src/WebApiClient.ts) and the calls of invokeGet / invokePost
VARIABLES
    apiVariant,         \* which revision of WebApiClient is in use
    apiHasLimit,        \* this._limit !== undefined
    limitTokens,        \* tokens the limiter's options allow in the window
    lifecycle,          \* progress of dispose(): "Active", "Disposing", "Disposed"
    disposeCalls,       \* calls of dispose()
    limitDisposeCount,  \* calls of this._limit.instance.dispose()
    calls               \* per call: position, inputs, limitToken and outcome

apiVars == <<apiVariant, apiHasLimit, limitTokens, lifecycle, disposeCalls,
             limitDisposeCount, calls>>

\* WebApiClient.invokeWebMethodPost / invokePost: the request one POST call
\* hands to the transport
VARIABLES
    postVariant,        \* which revision of WebApiClient is in use
    postCall,           \* the call made: method called and its arguments
    postRequest         \* what this._webClient.invoke was called with

postVars == <<postVariant, postCall, postRequest>>

\* HttpClient.WebError and its accessors object / requestObject
VARIABLES
    weResponse,         \* headers and body of the response the error wraps
    weRequest,          \* headers and body of the request the error wraps
    weObject,           \* what reading .object gave
    weRequestObject    \* what reading .requestObject gave

objVars == <<weResponse, weRequest, weObject, weRequestObject>>

\* WebApiClient: the wait-timeout handed to the limiter
VARIABLES
    waitVariant,        \* which revision of WebApiClient is in use
    limitTimeout,       \* this._limit.timeout as configured
    accrued            \* the calls of accrueTokenLazy made, with their arguments

waitVars == <<waitVariant, limitTimeout, accrued>>

\* the module guard at the head of index.ts
VARIABLES
    guardEnv,           \* process.env.NODE_ALLOW_CONFLICT_MODULES
    guardGlobal,        \* G[PACKAGE_GUARD]
    loads,              \* the loads of the module so far: version and what the guard did
    warnings           \* calls of console.warn

guardVars == <<guardEnv, guardGlobal, loads, warnings>>

\* concurrent calls on one HttpClient and one WebApiClient
VARIABLES
    invokes,            \* the calls of HttpClient.invoke in flight on one client, each with its closure's variables
    wrappers,           \* the calls of WebApiClient.invokeGet over them, each with its limitToken
    tokenCommits       \* how often each LimitToken was committed

concVars == <<invokes, wrappers, tokenCommits>>

\* the variables of the components modelled on their own
utilVars == <<postVars, objVars, waitVars, guardVars, concVars>>

\* the variables outside HttpClient.invoke's own call state
outsideVars == <<dispatchVars, legacyVars, apiVars, utilVars>>

clientVars == <<timeoutOpt, requestTimeout, tokenKind>>
tokenVars == <<tokenCancelled, cancelRequested, listeners, addCount, removeCount>>
latchVars == <<resolved, outcome, settleCalls>>
respVars == <<response, responseDataChunks, delivered>>
histVars == <<preCancelled, cancelledInFlight, timerPhase, errorUnresolved,
              endedUnresolved, lateEvent>>
httpClientVars == <<clientVars, tokenVars, called, req, latchVars, isConnectTimeout,
          request, respVars, histVars>>

\* the variables of HttpClient, the legacy WebClient and WebApiClient
coreVars == <<httpClientVars, dispatchVars, legacyVars, apiVars>>

vars == <<httpClientVars, outsideVars>>

(***************************************************************************)
(* Values                                                                  *)
(***************************************************************************)
Pending == [kind |-> "pending"]

NoRequest ==
    [created |-> 0, written |-> << >>, ended |-> FALSE, timeout |-> 0,
     timeoutFired |-> FALSE, socket |-> "none", aborted |-> FALSE,
     abortCount |-> 0, errorPending |-> FALSE]

NoResponse ==
    [state |-> "none", statusCode |-> 0, statusMessage |-> "", headers |-> {}]

ConnectTimeoutMsg == <<"Connect Timeout">>
FailedMsg(method, url, error) ==
    <<method, url, "failed with error:", error, "See innerError for details">>

CommunicationError(message, innerError) ==
    [kind |-> "CommunicationError", message |-> message, innerError |-> innerError]

CancelledError(message) == [kind |-> "CancelledError", message |-> message]

\* the TypeError the runtime or the transport throws
TypeError(message) == [kind |-> "TypeError", message |-> message]

\* what an honest token's throwIfCancellationRequested throws
TokenCancelledError == CancelledError(<<"token">>)

WebError(statusCode, statusDescription, method, reqHeaders, reqBody, respHeaders, respBody) ==
    [kind |-> "WebError", statusCode |-> statusCode,
     statusDescription |-> statusDescription, method |-> method,
     requestHeaders |-> reqHeaders, requestBody |-> reqBody,
     headers |-> respHeaders, body |-> respBody]

Response(statusCode, statusDescription, headers, body) ==
    [kind |-> "Response", statusCode |-> statusCode,
     statusDescription |-> statusDescription, headers |-> headers, body |-> body]

RECURSIVE BufferConcat(_)
BufferConcat(chunks) ==
    IF chunks = << >> THEN EmptyBuffer
    ELSE Head(chunks) \o BufferConcat(Tail(chunks))


(***************************************************************************)
(* The Promise: the first call of resolve / reject decides the outcome,    *)
(* later calls change nothing.  settleCalls counts the calls the code made. *)
(***************************************************************************)
Settle(value) ==
    /\ outcome' = IF outcome.kind = "pending" THEN value ELSE outcome
    /\ settleCalls' = settleCalls + 1

(***************************************************************************)
(* The cancellation token                                                  *)
(***************************************************************************)
\* throwIfCancellationRequested() as called from the body of invoke
throwIfCancellationRequested == tokenCancelled

\* throwIfCancellationRequested() as called from inside a cancel listener
ThrowsInListener == tokenKind = "ok"

(***************************************************************************)
(* request.abort(): counts the call; an open socket is destroyed, which    *)
(* clears its timers; with no response yet the request will emit an error. *)
(* Before the socket exists the request is only marked aborted.            *)
(***************************************************************************)
RequestAbort(rq) ==
    [rq EXCEPT !.abortCount = @ + 1,
               !.aborted = TRUE,
               !.socket = IF @ = "open" THEN "closed" ELSE @,
               !.errorPending = @ \/ (rq.socket = "open" /\ response.state = "none")]

(***************************************************************************)
(* Handlers of invoke                                                      *)
(***************************************************************************)
\* errorHandler without the latch: rejects on every error event
errorHandler_noLatch(error) ==
    /\ resolved' = TRUE
    /\ Settle(CommunicationError(
          IF isConnectTimeout THEN ConnectTimeoutMsg
          ELSE FailedMsg(req.method, req.url, error), error))

\* errorHandler that passes the transport's error through unwrapped
errorHandler_raw(error) ==
    IF ~resolved
    THEN /\ resolved' = TRUE
         /\ Settle([kind |-> "Error", message |-> <<error>>])
    ELSE UNCHANGED latchVars

\* errorHandler that never looks at isConnectTimeout
errorHandler_noTimeoutMsg(error) ==
    IF ~resolved
    THEN /\ resolved' = TRUE
         /\ Settle(CommunicationError(FailedMsg(req.method, req.url, error), error))
    ELSE UNCHANGED latchVars

errorHandler(error) ==
    IF ~resolved
    THEN /\ resolved' = TRUE
         /\ Settle(CommunicationError(
               IF isConnectTimeout THEN ConnectTimeoutMsg
               ELSE FailedMsg(req.method, req.url, error), error))
    ELSE UNCHANGED latchVars

\* response.statusCode || 500 (0 stands for a missing status code)
RespStatus(statusCode) == IF statusCode = 0 THEN 500 ELSE statusCode

\* the success test of the legacy WebClient
IsSuccess_only200(respStatus) == respStatus = 200

\* respStatus < 400
IsSuccess(respStatus) == respStatus < 400

\* WebError built with the request's and the response's headers exchanged
NewWebError_swapped(r, respStatus, respDescription, respHeaders, respBody) ==
    WebError(respStatus, respDescription, r.method,
             respHeaders,
             IF r.body.defined THEN r.body.value ELSE EmptyBuffer,
             IF r.headers.defined THEN r.headers.value ELSE NoHeaders, respBody)

\* new HttpClient.WebError(respStatus, respDescription, method,
\*     headers !== undefined ? headers : {},
\*     body !== undefined ? body : Buffer.alloc(0), respHeaders, respBody)
NewWebError(r, respStatus, respDescription, respHeaders, respBody) ==
    WebError(respStatus, respDescription, r.method,
             IF r.headers.defined THEN r.headers.value ELSE NoHeaders,
             IF r.body.defined THEN r.body.value ELSE EmptyBuffer,
             respHeaders, respBody)

\* an "end" handler that does not look at isConnectTimeout
responseEndHandler_noTimeoutBranch ==
    IF ~resolved
    THEN /\ resolved' = TRUE
         /\ LET respStatus == RespStatus(response.statusCode)
                respDescription == response.statusMessage
                respHeaders == response.headers
                respBody == BufferConcat(responseDataChunks)
            IN IF IsSuccess(respStatus)
               THEN Settle(Response(respStatus, respDescription,
                                    respHeaders, respBody))
               ELSE Settle(NewWebError(req, respStatus, respDescription,
                                       respHeaders, respBody))
    ELSE UNCHANGED latchVars

\* the "end" handler of the response
responseEndHandler ==
    IF ~resolved
    THEN /\ resolved' = TRUE
         /\ IF isConnectTimeout
            THEN Settle(CommunicationError(ConnectTimeoutMsg, NoError))
            ELSE LET respStatus == RespStatus(response.statusCode)
                     respDescription == response.statusMessage
                     respHeaders == response.headers
                     respBody == BufferConcat(responseDataChunks)
                 IN IF IsSuccess(respStatus)
                    THEN Settle(Response(respStatus, respDescription,
                                         respHeaders, respBody))
                    ELSE Settle(NewWebError(req, respStatus, respDescription,
                                            respHeaders, respBody))
    ELSE UNCHANGED latchVars

\* the timeout callback without the abort
timeoutCallback_noAbort ==
    /\ isConnectTimeout' = TRUE
    /\ request' = [request EXCEPT !.timeoutFired = TRUE]

\* request.setTimeout(..., () => { isConnectTimeout = true; request.abort(); })
timeoutCallback ==
    /\ isConnectTimeout' = TRUE
    /\ request' = RequestAbort([request EXCEPT !.timeoutFired = TRUE])

\* the cancel listener that only aborts and leaves the rejection to errorHandler
cb_abortOnly ==
    /\ listeners' = listeners \ {"cb"}
    /\ removeCount' = removeCount + 1
    /\ request' = RequestAbort(request)
    /\ UNCHANGED latchVars

\* the cancel listener that rejects but leaves the request running
cb_noAbort ==
    /\ listeners' = listeners \ {"cb"}
    /\ removeCount' = removeCount + 1
    /\ request' = request
    /\ IF ~resolved
       THEN /\ resolved' = TRUE
            /\ IF ThrowsInListener
               THEN Settle(TokenCancelledError)
               ELSE Settle(CancelledError(<<"Cancelled by user">>))
       ELSE UNCHANGED latchVars

\* a cancel listener without the guard for a token that does not throw
cb_noGuard ==
    /\ listeners' = listeners \ {"cb"}
    /\ removeCount' = removeCount + 1
    /\ request' = RequestAbort(request)
    /\ IF ~resolved
       THEN /\ resolved' = TRUE
            /\ IF ThrowsInListener
               THEN Settle(TokenCancelledError)
               ELSE UNCHANGED <<outcome, settleCalls>>
       ELSE UNCHANGED latchVars

\* const cb = () => { ... } registered with addCancelListener
cb ==
    /\ listeners' = listeners \ {"cb"}
    /\ removeCount' = removeCount + 1
    /\ request' = RequestAbort(request)
    /\ IF ~resolved
       THEN /\ resolved' = TRUE
            /\ IF ThrowsInListener
               THEN Settle(TokenCancelledError)
               ELSE Settle(CancelledError(<<"Cancelled by user">>))
       ELSE UNCHANGED latchVars

(***************************************************************************)
(* Construction                                                            *)
(***************************************************************************)
\* a constructor that keeps a missing timeout as "no timeout" (the legacy
\* WebClient's `opts.timeout || null`)
RequestTimeoutOf_null(opt) == opt

\* this._requestTimeout = opts && opts.timeout || HttpClient.DEFAULT_TIMEOUT
RequestTimeoutOf(opt) == IF opt = 0 THEN DEFAULT_TIMEOUT ELSE opt

\* no request has been handed to the transport yet
NoReqOpts == [protocol |-> "none"]

NoCall == [url |-> "", method |-> "", headers |-> Undefined, body |-> Undefined]

\* a client on which createClientRequest has not been called
NotDispatched ==
    /\ dispatched = NoCall
    /\ reqOpts = NoReqOpts
    /\ transport = "none"

\* a client on which invoke has not been called
NotInvoked ==
    /\ timeoutOpt \in TimeoutOpts
    /\ requestTimeout = RequestTimeoutOf(timeoutOpt)
    /\ tokenKind \in TokenKinds
    /\ tokenCancelled = FALSE
    /\ cancelRequested = FALSE
    /\ listeners = {}
    /\ addCount = 0
    /\ removeCount = 0
    /\ called = FALSE
    /\ req = NoCall
    /\ resolved = FALSE
    /\ isConnectTimeout = FALSE
    /\ outcome = Pending
    /\ settleCalls = 0
    /\ request = NoRequest
    /\ response = NoResponse
    /\ responseDataChunks = << >>
    /\ delivered = << >>
    /\ preCancelled = FALSE
    /\ cancelledInFlight = FALSE
    /\ timerPhase = "never"
    /\ errorUnresolved = NoError
    /\ endedUnresolved = "never"
    /\ lateEvent = FALSE

\* no legacy WebClient has been constructed
NoWebClient ==
    /\ wcVariant = "none"
    /\ wcRequestTimeout = 0
    /\ wcHasToken = FALSE
    /\ wcCancelled = FALSE
    /\ wcListeners = {}
    /\ wcCalled = FALSE
    /\ wcRequest = NoRequest
    /\ wcResponse = NoResponse
    /\ wcResponseDataChunks = << >>
    /\ wcIsConnecTimeout = FALSE
    /\ wcOutcome = Pending

\* no WebApiClient has been constructed
NoWebApiClient ==
    /\ apiVariant = "none"
    /\ apiHasLimit = FALSE
    /\ limitTokens = 0
    /\ lifecycle = "Active"
    /\ disposeCalls = 0
    /\ limitDisposeCount = 0
    /\ calls = << >>

\* no POST call is being followed
NoPost ==
    /\ postVariant = "none"
    /\ postCall = [entry |-> "none"]
    /\ postRequest = [method |-> "none"]

\* HttpClient.WebError and its accessors object / requestObject: not in use
NoWebError ==
    /\ weResponse = [body |-> "none"]
    /\ weRequest = [body |-> "none"]
    /\ weObject = [kind |-> "unread"]
    /\ weRequestObject = [kind |-> "unread"]

\* WebApiClient: the wait-timeout handed to the limiter: not in use
NoWait ==
    /\ waitVariant = "none"
    /\ limitTimeout = 0
    /\ accrued = << >>

\* the module guard at the head of index.ts: not in use
NoLoads ==
    /\ guardEnv = "undefined"
    /\ guardGlobal = Undefined
    /\ loads = << >>
    /\ warnings = 0

\* concurrent calls on one HttpClient and one WebApiClient: not in use
NoConcurrentCalls ==
    /\ invokes = << >>
    /\ wrappers = << >>
    /\ tokenCommits = << >>

\* none of the components modelled on their own is in use
NoUtil == NoPost /\ NoWebError /\ NoWait /\ NoLoads /\ NoConcurrentCalls

\* a client without proxy and TLS options, before invoke is called
Init ==
    /\ proxyOpts = Undefined
    /\ sslOpts = Undefined
    /\ NotDispatched
    /\ NotInvoked
    /\ NoWebClient
    /\ NoWebApiClient
    /\ NoUtil

(***************************************************************************)
(* invoke: the synchronous body of the promise executor                    *)
(***************************************************************************)
\* createClientRequest, request.write(body), request.end(),
\* request.on("error"), request.setTimeout, request.on("socket"),
\* cancellationToken.addCancelListener(cb)
Dispatch(r) ==
    /\ request' = [NoRequest EXCEPT
                     !.created = request.created + 1,
                     !.written = IF r.body.defined THEN <<r.body.value>> ELSE << >>,
                     !.ended = TRUE,
                     !.timeout = requestTimeout]
    /\ listeners' = listeners \cup {"cb"}
    /\ addCount' = addCount + 1

\* invoke that dispatches without asking the token first
Invoke_noPreCheck(r) ==
    /\ ~called
    /\ called' = TRUE
    /\ req' = r
    /\ preCancelled' = throwIfCancellationRequested
    /\ Dispatch(r)
    /\ UNCHANGED <<outsideVars, latchVars, clientVars, tokenCancelled, cancelRequested,
                   removeCount, isConnectTimeout, respVars, cancelledInFlight,
                   timerPhase, errorUnresolved, endedUnresolved, lateEvent>>

\* http.request(reqOpts, callback) throws instead of returning a request
RequestThrows(r) == r.url \in UnsupportedUrls

Invoke(r) ==
    /\ ~called
    /\ called' = TRUE
    /\ req' = r
    /\ preCancelled' = (tokenKind # "undefined" /\ throwIfCancellationRequested)
    /\ IF tokenKind = "undefined"
       THEN /\ Settle(TypeError("throwIfCancellationRequested of undefined"))
            /\ UNCHANGED <<resolved, request, listeners, addCount>>
       ELSE IF throwIfCancellationRequested
       THEN /\ Settle(TokenCancelledError)
            /\ UNCHANGED <<resolved, request, listeners, addCount>>
       ELSE IF RequestThrows(r)
       THEN /\ Settle(TypeError("Protocol not supported"))
            /\ UNCHANGED <<resolved, request, listeners, addCount>>
       ELSE /\ Dispatch(r)
            /\ UNCHANGED latchVars
    /\ UNCHANGED <<outsideVars, clientVars, tokenCancelled, cancelRequested, removeCount,
                   isConnectTimeout, respVars, cancelledInFlight, timerPhase,
                   errorUnresolved, endedUnresolved, lateEvent>>

(***************************************************************************)
(* The token source: cancel() raises the flag and notifies the listeners   *)
(***************************************************************************)
Cancel ==
    /\ tokenKind # "undefined"
    /\ ~cancelRequested
    /\ cancelRequested' = TRUE
    /\ tokenCancelled' = TRUE
    /\ IF "cb" \in listeners
       THEN /\ cb
            /\ cancelledInFlight' = ~resolved
            /\ lateEvent' = (lateEvent \/ resolved)
       ELSE UNCHANGED <<listeners, removeCount, request, latchVars,
                        cancelledInFlight, lateEvent>>
    /\ UNCHANGED <<outsideVars, clientVars, addCount, called, req, isConnectTimeout, respVars,
                   preCancelled, timerPhase, errorUnresolved, endedUnresolved>>

(***************************************************************************)
(* Events of the request                                                   *)
(***************************************************************************)
\* "socket": the request got its socket; socket.setTimeout(requestTimeout)
OnSocket ==
    /\ request.created > 0
    /\ request.socket = "none"
    /\ ~request.aborted
    /\ request' = [request EXCEPT !.socket = "open"]
    /\ UNCHANGED <<outsideVars, clientVars, tokenVars, called, req, latchVars,
                   isConnectTimeout, respVars, histVars>>

\* an error event handled by errorHandler: the history it leaves
ErrorEvent(e) ==
    /\ errorHandler(e)
    /\ errorUnresolved' = IF resolved THEN errorUnresolved ELSE e
    /\ lateEvent' = (lateEvent \/ resolved)

\* request "error" raised by the transport itself (refused, reset, ...)
RequestError(e) ==
    /\ request.socket = "open"
    /\ response.state \in {"none", "open"}
    /\ request' = [request EXCEPT !.socket = "closed"]
    /\ ErrorEvent(e)
    /\ UNCHANGED <<outsideVars, clientVars, tokenVars, called, req, isConnectTimeout, respVars,
                   preCancelled, cancelledInFlight, timerPhase, endedUnresolved>>

\* request "error" raised because the request was aborted before a response
AbortError(e) ==
    /\ request.errorPending
    /\ request' = [request EXCEPT !.errorPending = FALSE]
    /\ ErrorEvent(e)
    /\ UNCHANGED <<outsideVars, clientVars, tokenVars, called, req, isConnectTimeout, respVars,
                   preCancelled, cancelledInFlight, timerPhase, endedUnresolved>>

\* "timeout": the socket stayed idle for requestTimeout (callback registered once)
TimerExpire ==
    /\ request.socket = "open"
    /\ request.timeout > 0
    /\ ~request.timeoutFired
    /\ timeoutCallback
    /\ timerPhase' = IF response.state = "none" THEN "beforeResponse" ELSE "midResponse"
    /\ UNCHANGED <<outsideVars, clientVars, tokenVars, called, req, latchVars, respVars,
                   preCancelled, cancelledInFlight, errorUnresolved,
                   endedUnresolved, lateEvent>>

(***************************************************************************)
(* Events of the response                                                  *)
(***************************************************************************)
\* "response": responseHandler registers the data / error / end handlers
ResponseBegin(statusCode, statusMessage, headers) ==
    /\ request.socket = "open"
    /\ response.state = "none"
    /\ response' = [state |-> "open", statusCode |-> statusCode,
                    statusMessage |-> statusMessage, headers |-> headers]
    /\ responseDataChunks' = << >>
    /\ UNCHANGED <<outsideVars, clientVars, tokenVars, called, req, latchVars,
                   isConnectTimeout, request, delivered, histVars>>

\* responseDataChunks.push(chunk)
push(chunks, chunk) == Append(chunks, chunk)

\* "data"
ResponseData(chunk) ==
    /\ request.socket = "open"
    /\ response.state = "open"
    /\ Len(delivered) < MaxChunks
    /\ responseDataChunks' = push(responseDataChunks, chunk)
    /\ delivered' = Append(delivered, chunk)
    /\ UNCHANGED <<outsideVars, clientVars, tokenVars, called, req, latchVars,
                   isConnectTimeout, request, response, histVars>>

\* an "end" event handled by the end handler: the history it leaves
EndEvent(how) ==
    /\ responseEndHandler
    /\ endedUnresolved' = IF resolved THEN endedUnresolved ELSE how
    /\ lateEvent' = (lateEvent \/ resolved)

\* "end": the peer completed the response
ResponseEnd ==
    /\ request.socket = "open"
    /\ response.state = "open"
    /\ response' = [response EXCEPT !.state = "ended"]
    /\ request' = [request EXCEPT !.socket = "closed"]
    /\ EndEvent("completed")
    /\ UNCHANGED <<outsideVars, clientVars, tokenVars, called, req, isConnectTimeout,
                   responseDataChunks, delivered, preCancelled, cancelledInFlight,
                   timerPhase, errorUnresolved>>

\* "end" of a response whose socket was closed under it (abort, socket error)
ResponseEndAfterClose ==
    /\ request.socket = "closed"
    /\ response.state = "open"
    /\ response' = [response EXCEPT !.state = "ended"]
    /\ EndEvent("cutOff")
    /\ UNCHANGED <<outsideVars, clientVars, tokenVars, called, req, isConnectTimeout, request,
                   responseDataChunks, delivered, preCancelled, cancelledInFlight,
                   timerPhase, errorUnresolved>>

\* response "error": the connection broke while the body was read
ResponseError(e) ==
    /\ request.socket = "open"
    /\ response.state = "open"
    /\ response' = [response EXCEPT !.state = "failed"]
    /\ request' = [request EXCEPT !.socket = "closed"]
    /\ ErrorEvent(e)
    /\ UNCHANGED <<outsideVars, clientVars, tokenVars, called, req, isConnectTimeout,
                   responseDataChunks, delivered, preCancelled, cancelledInFlight,
                   timerPhase, endedUnresolved>>

\* response "error" of a response whose socket was closed under it
ResponseErrorAfterClose(e) ==
    /\ request.socket = "closed"
    /\ response.state = "open"
    /\ response' = [response EXCEPT !.state = "failed"]
    /\ ErrorEvent(e)
    /\ UNCHANGED <<outsideVars, clientVars, tokenVars, called, req, isConnectTimeout, request,
                   responseDataChunks, delivered, preCancelled, cancelledInFlight,
                   timerPhase, endedUnresolved>>

(***************************************************************************)
(* Specifications                                                          *)
(***************************************************************************)
Next ==
    \/ \E r \in Requests : Invoke(r)
    \/ Cancel
    \/ OnSocket
    \/ \E e \in TransportErrors : RequestError(e)
    \/ \E e \in AbortErrors : AbortError(e)
    \/ TimerExpire
    \/ \E sc \in StatusCodes, sm \in StatusMessages, h \in ResponseHeaders :
          ResponseBegin(sc, sm, h)
    \/ \E c \in Chunks : ResponseData(c)
    \/ ResponseEnd
    \/ ResponseEndAfterClose
    \/ \E e \in TransportErrors : ResponseError(e)
    \/ \E e \in AbortErrors : ResponseErrorAfterClose(e)

Spec == Init /\ [][Next]_vars

\* The event loop runs every event that is due: the socket is assigned, an
\* armed timer fires, an aborted request reports its error, a response cut
\* off by a closed socket ends or fails.  What the peer does is not forced.
Fairness ==
    /\ WF_vars(OnSocket)
    /\ WF_vars(TimerExpire)
    /\ WF_vars(\E e \in AbortErrors : AbortError(e))
    /\ WF_vars(ResponseEndAfterClose \/ \E e \in AbortErrors : ResponseErrorAfterClose(e))

FairSpec == Spec /\ Fairness

(***************************************************************************)
(* HttpClient.createClientRequest                                          *)
(***************************************************************************)
\* the properties invoke reads of a WHATWG URL object
URL(protocol, hostname, port, pathname, search) ==
    LET host == IF port = "" THEN hostname ELSE hostname \o ":" \o port
    IN  [protocol |-> protocol, hostname |-> hostname, port |-> port,
         host |-> host, pathname |-> pathname, search |-> search,
         href |-> protocol \o "//" \o host \o pathname \o search]

TargetUrls ==
    { URL("http:", "target.example", "", "/", ""),
      URL("http:", "target.example", "8080", "/a", "?b=1"),
      URL("https:", "target.example", "", "/a", ""),
      URL("https:", "target.example", "8443", "/", "?b=1") }

CallerHeaders ==
    { Undefined,
      Some({<<"test", "test">>}),
      Some({<<"Host", "other.example">>}),
      Some({<<"Host", "other.example">>, <<"test", "test">>}) }

ProxyOptsSet ==
    { Undefined,
      Some([type |-> "http", host |-> "localhost", port |-> 3128]),
      Some([type |-> "socks5"]) }

\* SslOptsBase | SslCertOpts | SslPfxOpts, as the set of properties present
SslOptsSet ==
    { Undefined,
      Some([rejectUnauthorized |-> FALSE]),
      Some([ca |-> "ca"]),
      Some([ca |-> "ca", key |-> "key", cert |-> "cert"]),
      Some([rejectUnauthorized |-> TRUE, pfx |-> "pfx", passphrase |-> "secret"]),
      Some([pfx |-> "pfx", passphrase |-> "secret", key |-> "key", cert |-> "cert"]) }

\* the properties of an optional headers object
HeadersOf(headers) == IF headers.defined THEN headers.value ELSE {}

\* { ...a, ...b }: a property of b replaces the property of a with its name
Spread(a, b) == {p \in a : \A q \in b : q[1] # p[1]} \cup b

\* the record o restricted to the properties named in keys
Pick(o, keys) == [k \in keys \cap DOMAIN o |-> o[k]]

\* every property of sslOpts copied onto reqOpts
TlsOpts_all == IF ~sslOpts.defined THEN << >> ELSE sslOpts.value

\* the TLS properties copied onto reqOpts when the protocol is https:
TlsOpts ==
    IF ~sslOpts.defined THEN << >>
    ELSE LET o == sslOpts.value
         IN  Pick(o, {"ca", "rejectUnauthorized"})
             @@ (IF "pfx" \in DOMAIN o THEN Pick(o, {"pfx", "passphrase"})
                 ELSE IF "cert" \in DOMAIN o THEN Pick(o, {"key", "cert"})
                 ELSE << >>)

\* private createClientRequest({ url, method, headers }, callback)
createClientRequest(url, method, headers) ==
    IF proxyOpts.defined /\ proxyOpts.value.type = "http"
    THEN [transport |-> "http",
          reqOpts |-> [protocol |-> "http:",
                       host |-> proxyOpts.value.host,
                       port |-> proxyOpts.value.port,
                       path |-> url.href,
                       method |-> method,
                       headers |-> Some(Spread({<<"Host", url.host>>},
                                               HeadersOf(headers)))]]
    ELSE LET direct == [protocol |-> url.protocol,
                        host |-> url.hostname,
                        port |-> url.port,
                        path |-> url.pathname \o url.search,
                        method |-> method,
                        headers |-> headers]
         IN  IF direct.protocol = "https:"
             THEN [transport |-> "https", reqOpts |-> direct @@ TlsOpts]
             ELSE [transport |-> "http", reqOpts |-> direct]

\* a client constructed with any proxy and TLS options
DispatchInit ==
    /\ proxyOpts \in ProxyOptsSet
    /\ sslOpts \in SslOptsSet
    /\ NotDispatched
    /\ NotInvoked /\ timeoutOpt = 0 /\ tokenKind = "ok"
    /\ NoWebClient
    /\ NoWebApiClient
    /\ NoUtil

\* one call of createClientRequest, as invoke makes it
CreateClientRequest ==
    \E url \in TargetUrls, method \in Methods, headers \in CallerHeaders :
        LET c == createClientRequest(url, method, headers)
        IN  /\ dispatched' = [url |-> url, method |-> method,
                              headers |-> headers, body |-> Undefined]
            /\ reqOpts' = c.reqOpts
            /\ transport' = c.transport
            /\ UNCHANGED <<proxyOpts, sslOpts, httpClientVars, utilVars, legacyVars, apiVars>>

DispatchNext == CreateClientRequest

DispatchSpec == DispatchInit /\ [][DispatchNext]_vars

(***************************************************************************)
(* The legacy WebClient.invoke, in its two revisions                       *)
(***************************************************************************)
WebClientVariants == {"WebClient.ts", "part_001"}

LegacyStatusCodes == {200, 301, 404}

\* resolve / reject of the promise invoke returns
WcSettle(value) ==
    wcOutcome' = IF wcOutcome.kind = "pending" THEN value ELSE wcOutcome

\* requestLike.abort() / request.abort()
WcAbort(rq) ==
    [rq EXCEPT !.abortCount = @ + 1,
               !.aborted = TRUE,
               !.socket = IF @ = "open" THEN "closed" ELSE @,
               !.errorPending = @ \/ (rq.socket = "open" /\ wcResponse.state = "none")]

\* .on("error", error => ...) of the request
wcErrorHandler(error) ==
    IF wcVariant = "WebClient.ts"
    THEN WcSettle([kind |-> "Error", message |-> error])
    ELSE WcSettle(CommunicationError(
             IF wcIsConnecTimeout THEN <<"Connect Timeout">>
             ELSE <<"http.request failed. See innderError for details">>,
             error))

\* chunks a legacy response delivers: an ASCII byte, and a byte that is not
\* valid UTF-8
LegacyChunks == {<<70>>, <<255>>}

\* a Buffer value and a string value
BufferValue(bytes) == [type |-> "Buffer", bytes |-> bytes]
StringValue(chars) == [type |-> "string", chars |-> chars]

\* Buffer.prototype.toString(): UTF-8 decoding. Of the bytes of LegacyChunks
\* the ones below 128 decode to themselves; 255 starts no UTF-8 sequence and
\* decodes to U+FFFD.
RECURSIVE Utf8Decode(_)
Utf8Decode(bytes) ==
    IF bytes = << >> THEN << >>
    ELSE <<IF Head(bytes) < 128 THEN Head(bytes) ELSE 65533>> \o Utf8Decode(Tail(bytes))

\* new WebError(statusCode, statusDescription, data) of either revision
LegacyWebError(statusCode, statusDescription, data) ==
    [kind |-> "WebError", statusCode |-> statusCode,
     statusDescription |-> statusDescription, errorData |-> data]

\* the data argument of new WebError(...): finalData.toString() in
\* WebClient.ts, finalData in part_001
errorData(finalData) ==
    IF wcVariant = "WebClient.ts"
    THEN StringValue(Utf8Decode(finalData))
    ELSE BufferValue(finalData)

\* response.on("end", ...)
wcEndHandler ==
    LET finalData == BufferConcat(wcResponseDataChunks)
    IN  IF wcResponse.statusCode = 200
        THEN WcSettle(BufferValue(finalData) @@ [kind |-> "Buffer"])
        ELSE WcSettle(LegacyWebError(wcResponse.statusCode, wcResponse.statusMessage,
                                     errorData(finalData)))

\* WebClient.ts: request.setTimeout(t, () => { reject(new Error("Timeout")); })
wcTimeoutCallback ==
    /\ wcRequest' = [wcRequest EXCEPT !.timeoutFired = TRUE]
    /\ WcSettle([kind |-> "Error", message |-> "Timeout"])
    /\ UNCHANGED wcIsConnecTimeout

\* part_001: () => { request.abort(); isConnecTimeout = true; }, registered by
\* request.setTimeout and again by socket.on("timeout", ...)
wcTimeoutCallback2 ==
    /\ wcRequest' = [WcAbort(WcAbort(wcRequest)) EXCEPT !.timeoutFired = TRUE]
    /\ wcIsConnecTimeout' = TRUE
    /\ UNCHANGED wcOutcome

\* const cb = () => { ... } of registerCancelOperationIfNeeded
wcCb ==
    /\ wcListeners' = wcListeners \ {"cb"}
    /\ wcRequest' = WcAbort(wcRequest)
    /\ WcSettle(TokenCancelledError)

\* a WebClient of either revision, constructed with or without a timeout,
\* before invoke is called with or without a cancellation token
LegacyInit ==
    /\ wcVariant \in WebClientVariants
    /\ wcRequestTimeout \in TimeoutOpts
    /\ wcHasToken \in BOOLEAN
    /\ wcCancelled = FALSE
    /\ wcListeners = {}
    /\ wcCalled = FALSE
    /\ wcRequest = NoRequest
    /\ wcResponse = NoResponse
    /\ wcResponseDataChunks = << >>
    /\ wcIsConnecTimeout = FALSE
    /\ wcOutcome = Pending
    /\ proxyOpts = Undefined
    /\ sslOpts = Undefined
    /\ NotDispatched
    /\ NotInvoked /\ timeoutOpt = 0 /\ tokenKind = "ok"
    /\ NoWebApiClient
    /\ NoUtil

\* public invoke({ url, method, headers, body }, cancellationToken?)
WcInvoke ==
    /\ ~wcCalled
    /\ wcCalled' = TRUE
    /\ IF wcHasToken /\ wcCancelled
       THEN /\ WcSettle(TokenCancelledError)
            /\ UNCHANGED <<wcRequest, wcListeners>>
       ELSE /\ wcRequest' = [NoRequest EXCEPT !.created = 1, !.ended = TRUE,
                                              !.timeout = wcRequestTimeout]
            /\ wcListeners' = IF wcHasToken THEN {"cb"} ELSE {}
            /\ UNCHANGED wcOutcome
    /\ UNCHANGED <<wcResponseDataChunks, wcVariant, wcRequestTimeout, wcHasToken, wcCancelled, wcResponse,
                   wcIsConnecTimeout, httpClientVars, utilVars, dispatchVars, apiVars>>

\* the owner of the token cancels it
WcCancel ==
    /\ wcHasToken
    /\ ~wcCancelled
    /\ wcCancelled' = TRUE
    /\ IF "cb" \in wcListeners
       THEN wcCb
       ELSE UNCHANGED <<wcListeners, wcRequest, wcOutcome>>
    /\ UNCHANGED <<wcResponseDataChunks, wcVariant, wcRequestTimeout, wcHasToken, wcCalled, wcResponse,
                   wcIsConnecTimeout, httpClientVars, utilVars, dispatchVars, apiVars>>

\* the transport assigns a socket to the request
WcOnSocket ==
    /\ wcRequest.created > 0
    /\ wcRequest.socket = "none"
    /\ ~wcRequest.aborted
    /\ wcRequest' = [wcRequest EXCEPT !.socket = "open"]
    /\ UNCHANGED <<wcResponseDataChunks, wcVariant, wcRequestTimeout, wcHasToken, wcCancelled, wcListeners,
                   wcCalled, wcResponse, wcIsConnecTimeout, wcOutcome,
                   httpClientVars, utilVars, dispatchVars, apiVars>>

\* the socket has been idle for this._requestTimeout milliseconds
WcTimerExpire ==
    /\ wcRequest.socket = "open"
    /\ wcRequest.timeout > 0
    /\ ~wcRequest.timeoutFired
    /\ IF wcVariant = "WebClient.ts" THEN wcTimeoutCallback ELSE wcTimeoutCallback2
    /\ UNCHANGED <<wcResponseDataChunks, wcVariant, wcRequestTimeout, wcHasToken, wcCancelled, wcListeners,
                   wcCalled, wcResponse, httpClientVars, utilVars, dispatchVars, apiVars>>

\* the transport fails before a response: 'error' on the request
WcRequestError(e) ==
    /\ wcRequest.created > 0
    /\ wcRequest.socket \in {"none", "open"}
    /\ ~wcRequest.aborted
    /\ wcResponse.state = "none"
    /\ wcRequest' = [wcRequest EXCEPT !.socket = "closed"]
    /\ wcErrorHandler(e)
    /\ UNCHANGED <<wcResponseDataChunks, wcVariant, wcRequestTimeout, wcHasToken, wcCancelled, wcListeners,
                   wcCalled, wcResponse, wcIsConnecTimeout, httpClientVars, utilVars,
                   dispatchVars, apiVars>>

\* the 'error' an abort raises on a request that has no response yet
WcAbortError ==
    /\ wcRequest.errorPending
    /\ wcRequest' = [wcRequest EXCEPT !.errorPending = FALSE]
    /\ wcErrorHandler("socket hang up")
    /\ UNCHANGED <<wcResponseDataChunks, wcVariant, wcRequestTimeout, wcHasToken, wcCancelled, wcListeners,
                   wcCalled, wcResponse, wcIsConnecTimeout, httpClientVars, utilVars,
                   dispatchVars, apiVars>>

\* status line and headers arrive: responseHandler(response)
WcResponseBegin ==
    /\ wcRequest.socket = "open"
    /\ wcResponse.state = "none"
    /\ \E code \in LegacyStatusCodes :
           wcResponse' = [NoResponse EXCEPT !.state = "open", !.statusCode = code]
    /\ UNCHANGED <<wcResponseDataChunks, wcVariant, wcRequestTimeout, wcHasToken, wcCancelled, wcListeners,
                   wcCalled, wcRequest, wcIsConnecTimeout, wcOutcome,
                   httpClientVars, utilVars, dispatchVars, apiVars>>

\* a chunk of the body arrives: response.on("data", ...)
WcResponseData(chunk) ==
    /\ wcRequest.socket = "open"
    /\ wcResponse.state = "open"
    /\ Len(wcResponseDataChunks) < MaxChunks
    /\ wcResponseDataChunks' = Append(wcResponseDataChunks, chunk)
    /\ UNCHANGED <<wcVariant, wcRequestTimeout, wcHasToken, wcCancelled, wcListeners,
                   wcCalled, wcRequest, wcResponse, wcIsConnecTimeout, wcOutcome,
                   httpClientVars, utilVars, dispatchVars, apiVars>>

\* the peer completes the response: 'end'
WcResponseEnd ==
    /\ wcRequest.socket = "open"
    /\ wcResponse.state = "open"
    /\ wcResponse' = [wcResponse EXCEPT !.state = "ended"]
    /\ wcRequest' = [wcRequest EXCEPT !.socket = "closed"]
    /\ wcEndHandler
    /\ UNCHANGED <<wcResponseDataChunks, wcVariant, wcRequestTimeout, wcHasToken, wcCancelled, wcListeners,
                   wcCalled, wcIsConnecTimeout, httpClientVars, utilVars, dispatchVars, apiVars>>

\* an open response whose socket was destroyed: 'end', or 'error' ("aborted")
WcResponseCutOff ==
    /\ wcRequest.socket = "closed"
    /\ wcResponse.state = "open"
    /\ \/ /\ wcResponse' = [wcResponse EXCEPT !.state = "ended"]
          /\ wcEndHandler
       \/ /\ wcResponse' = [wcResponse EXCEPT !.state = "failed"]
          /\ WcSettle([kind |-> "Error", message |-> "aborted"])
    /\ UNCHANGED <<wcResponseDataChunks, wcVariant, wcRequestTimeout, wcHasToken, wcCancelled, wcListeners,
                   wcCalled, wcRequest, wcIsConnecTimeout, httpClientVars, utilVars,
                   dispatchVars, apiVars>>

LegacyNext ==
    \/ WcInvoke
    \/ WcCancel
    \/ WcOnSocket
    \/ WcTimerExpire
    \/ \E e \in TransportErrors : WcRequestError(e)
    \/ WcAbortError
    \/ WcResponseBegin
    \/ \E chunk \in LegacyChunks : WcResponseData(chunk)
    \/ WcResponseEnd
    \/ WcResponseCutOff

LegacySpec == LegacyInit /\ [][LegacyNext]_vars

(***************************************************************************)
(* WebApiClient: invokeGet / invokePost, the limiter and disposal          *)
(***************************************************************************)
\* calls of invokeGet / invokePost made on one client
MaxCalls == 2
\* calls of dispose() made on one client
MaxDisposeCalls == 2

CallIds == 1..MaxCalls

\* part_002, and the two classes of src/src/WebApiClient.ts: the one at its
\* line 20 and the earliest one at its line 140
WebApiClientVariants == {"part_002", "WebApiClient.ts", "WebApiClient.ts:140"}

\* the path argument: relative to the base URL, or one new URL() rejects
Paths == {"a", "//"}

\* what the transport answers with
ResponseTexts == {"{}", "<html>"}

\* what the transport fails with of its own
TransportFailures == {"CommunicationError", "WebError"}

ApiError(name) == [kind |-> "error", error |-> name]
ApiValue(v) == [kind |-> "value", value |-> v]

\* a call of invokeGet / invokePost that has not been made
NotCalled ==
    [pc |-> "idle", method |-> "", path |-> "", cancel |-> "none",
     startedIn |-> "", limitToken |-> FALSE, acquireFailed |-> NoError,
     transportFailed |-> NoError, dispatchedIn |-> "",
     transportCalls |-> 0, commits |-> 0, outcome |-> Pending]

\* new URL(path, this._baseUrl): undefined stands for the TypeError it throws
JoinUrl(path) == IF path = "//" THEN Undefined ELSE Some("http://api.example/" \o path)

\* JSON.parse(result.toString()): undefined stands for the SyntaxError
JSONparse(text) == IF text = "{}" THEN Some([object |-> {}]) ELSE Undefined

\* the call returns or throws: its promise settles, its arguments are dropped
Return(k, settled) ==
    [k EXCEPT !.pc = "done", !.method = "", !.path = "", !.cancel = "none",
              !.dispatchedIn = "", !.outcome = settled]

\* a finally block that commits the token only when the try block succeeded
Finally_onSuccessOnly(k, settled) ==
    Return([k EXCEPT !.commits = IF k.limitToken /\ settled.kind = "value"
                                 THEN @ + 1 ELSE @], settled)

\* finally { if (limitToken !== null) { limitToken.commit(); } }
Finally(k, settled) ==
    Return([k EXCEPT !.commits = IF k.limitToken THEN @ + 1 ELSE @], settled)

\* the try block up to its await: new URL(...), this._webClient.invoke(...);
\* the method goes to the transport with the request
TryBlock(k) ==
    IF JoinUrl(k.path).defined
    THEN [k EXCEPT !.pc = "transport", !.method = "", !.dispatchedIn = lifecycle,
                   !.transportCalls = @ + 1]
    ELSE Finally(k, ApiError("TypeError"))

\* a wrapper that reports every failure of the transport as one error of
\* its own
AfterTransport_wrapped(k, settled) ==
    IF settled.kind = "error"
    THEN Finally([k EXCEPT !.transportFailed = settled.error], ApiError("Error"))
    ELSE Finally(k, ApiValue(settled.value))

\* the await of the transport's promise and JSON.parse of a result
AfterTransport(k, settled) ==
    IF settled.kind = "error"
    THEN Finally([k EXCEPT !.transportFailed = settled.error], settled)
    ELSE IF JSONparse(settled.value).defined
         THEN Finally(k, ApiValue(JSONparse(settled.value).value))
         ELSE Finally(k, ApiError("SyntaxError"))

\* super.verifyNotDisposed() of part_002; the earlier revision has no check
verifyNotDisposed ==
    apiVariant = "part_002" /\ lifecycle # "Active"

\* invokeGet / invokePost of this revision wait for a token of this._limit; the
\* earliest class leaves the limiter to limitThreshold, which they do not call
AcquiresToken == apiHasLimit /\ apiVariant # "WebApiClient.ts:140"

\* the caller's cancellation token reaches the limiter and the transport: only
\* part_002 has a parameter for it
PassesCancellation == apiVariant = "part_002"

\* tokens granted so far
Granted == Cardinality({c \in DOMAIN calls : calls[c].limitToken})

\* the limiter has dropped the waiting call: its token was cancelled
WaitCancelled(k) == PassesCancellation /\ k.cancel = "cancelled"

\* an acquisition failure taken for "no limiter": the call goes on
AcquireFailed_goesOn(k, error) ==
    TryBlock([k EXCEPT !.acquireFailed = error])

\* await accrueTokenLazy(...) rejected: the rejection leaves invokeGet
AcquireFailed(k, error) ==
    Return([k EXCEPT !.acquireFailed = error], ApiError(error))

\* a client of either revision, with or without a limiter
ApiInit ==
    /\ apiVariant \in WebApiClientVariants
    /\ apiHasLimit \in BOOLEAN
    /\ limitTokens \in (IF apiHasLimit THEN {1, MaxCalls} ELSE {0})
    /\ lifecycle = "Active"
    /\ disposeCalls = 0
    /\ limitDisposeCount = 0
    /\ calls = [c \in CallIds |-> NotCalled]
    /\ proxyOpts = Undefined
    /\ sslOpts = Undefined
    /\ NotDispatched
    /\ NotInvoked /\ timeoutOpt = 0 /\ tokenKind = "ok"
    /\ NoWebClient
    /\ NoUtil

\* invokeGet(path, opts) / invokePost(path, body, opts) up to the first await
ApiInvoke(c, method, path, cancel) ==
    /\ calls[c].pc = "idle"
    /\ \A d \in CallIds : d < c => calls[d].pc # "idle"
    /\ LET k == [NotCalled EXCEPT !.method = method, !.path = path,
                                  !.cancel = cancel, !.startedIn = lifecycle]
       IN  calls' = [calls EXCEPT ![c] =
               IF verifyNotDisposed
               THEN Return(k, ApiError("Disposed"))
               ELSE IF AcquiresToken THEN [k EXCEPT !.pc = "waitToken"]
               ELSE TryBlock(k)]
    /\ UNCHANGED <<apiVariant, apiHasLimit, limitTokens, lifecycle, disposeCalls,
                   limitDisposeCount, httpClientVars, utilVars, dispatchVars, legacyVars>>

\* the limiter grants the token: limitToken = await accrueTokenLazy(...)
TokenGranted(c) ==
    /\ calls[c].pc = "waitToken"
    /\ ~WaitCancelled(calls[c])
    /\ Granted < limitTokens
    /\ calls' = [calls EXCEPT ![c] = TryBlock([calls[c] EXCEPT !.limitToken = TRUE])]
    /\ UNCHANGED <<apiVariant, apiHasLimit, limitTokens, lifecycle, disposeCalls,
                   limitDisposeCount, httpClientVars, utilVars, dispatchVars, legacyVars>>

\* the limiter's wait-timeout elapses: accrueTokenLazy rejects
TokenTimeout(c) ==
    /\ calls[c].pc = "waitToken"
    /\ ~WaitCancelled(calls[c])
    /\ calls' = [calls EXCEPT ![c] = AcquireFailed(calls[c], "LimitError")]
    /\ UNCHANGED <<apiVariant, apiHasLimit, limitTokens, lifecycle, disposeCalls,
                   limitDisposeCount, httpClientVars, utilVars, dispatchVars, legacyVars>>

\* the limiter sees the caller's token cancelled: accrueTokenLazy rejects
TokenCancelled(c) ==
    /\ calls[c].pc = "waitToken"
    /\ WaitCancelled(calls[c])
    /\ calls' = [calls EXCEPT ![c] = AcquireFailed(calls[c], "CancelledError")]
    /\ UNCHANGED <<apiVariant, apiHasLimit, limitTokens, lifecycle, disposeCalls,
                   limitDisposeCount, httpClientVars, utilVars, dispatchVars, legacyVars>>

\* the caller cancels the token it passed with the call
ApiCancel(c) ==
    /\ calls[c].pc \in {"waitToken", "transport"}
    /\ calls[c].cancel = "live"
    /\ calls' = [calls EXCEPT ![c].cancel = "cancelled"]
    /\ UNCHANGED <<apiVariant, apiHasLimit, limitTokens, lifecycle, disposeCalls,
                   limitDisposeCount, httpClientVars, utilVars, dispatchVars, legacyVars>>

\* the transport's promise resolves with the response body
TransportResolved(c, text) ==
    /\ calls[c].pc = "transport"
    /\ calls' = [calls EXCEPT ![c] = AfterTransport(calls[c], ApiValue(text))]
    /\ UNCHANGED <<apiVariant, apiHasLimit, limitTokens, lifecycle, disposeCalls,
                   limitDisposeCount, httpClientVars, utilVars, dispatchVars, legacyVars>>

\* the transport's promise rejects: a failure of its own, or the cancellation
TransportRejected(c, error) ==
    /\ calls[c].pc = "transport"
    /\ error = "CancelledError" =>
           PassesCancellation /\ calls[c].cancel = "cancelled"
    /\ calls' = [calls EXCEPT ![c] = AfterTransport(calls[c], ApiError(error))]
    /\ UNCHANGED <<apiVariant, apiHasLimit, limitTokens, lifecycle, disposeCalls,
                   limitDisposeCount, httpClientVars, utilVars, dispatchVars, legacyVars>>

\* dispose(): Disposable.dispose() with onDispose in part_002, the method of
\* the earlier revision otherwise
ApiDispose ==
    /\ apiVariant # "WebApiClient.ts:140"
    /\ disposeCalls < MaxDisposeCalls
    /\ disposeCalls' = disposeCalls + 1
    /\ IF apiVariant = "part_002" /\ lifecycle # "Active"
       THEN UNCHANGED <<lifecycle, limitDisposeCount>>
       ELSE /\ lifecycle' = IF lifecycle = "Active" THEN "Disposing" ELSE lifecycle
            /\ limitDisposeCount' = IF apiHasLimit THEN limitDisposeCount + 1
                                    ELSE limitDisposeCount
    /\ UNCHANGED <<apiVariant, apiHasLimit, limitTokens, calls, httpClientVars, utilVars, dispatchVars,
                   legacyVars>>

\* the promise of dispose() resolves
ApiDisposed ==
    /\ lifecycle = "Disposing"
    /\ lifecycle' = "Disposed"
    /\ UNCHANGED <<apiVariant, apiHasLimit, limitTokens, disposeCalls, limitDisposeCount, calls,
                   httpClientVars, utilVars, dispatchVars, legacyVars>>

ApiNext ==
    \/ \E c \in CallIds, method \in {"GET", "POST"}, path \in Paths,
          cancel \in {"none", "live"} : ApiInvoke(c, method, path, cancel)
    \/ \E c \in CallIds : TokenGranted(c)
    \/ \E c \in CallIds : TokenTimeout(c)
    \/ \E c \in CallIds : TokenCancelled(c)
    \/ \E c \in CallIds : ApiCancel(c)
    \/ \E c \in CallIds, text \in ResponseTexts : TransportResolved(c, text)
    \/ \E c \in CallIds, error \in TransportFailures \cup {"CancelledError"} :
          TransportRejected(c, error)
    \/ ApiDispose
    \/ ApiDisposed

ApiSpec == ApiInit /\ [][ApiNext]_vars

(***************************************************************************)
(* WebApiClient: the headers and the body of a POST request                *)
(***************************************************************************)
\* the variables of everything but the POST call
outsidePost == <<coreVars, objVars, waitVars, guardVars, concVars>>

\* the three classes have the same arguments; in part_002 postArgs is
\* optional
PostArgsSet ==
    { Undefined,
      Some(<< >>),
      Some(<< <<"a", "1">> >>),
      Some(<< <<"a", "1">>, <<"b", "22">> >>) }

\* headers objects, as the sequence of their properties in insertion order
PostCallerHeaders ==
    { Undefined,
      Some(<< >>),
      Some(<< <<"X-Test", "test">> >>),
      Some(<< <<"Content-Type", "application/json">> >>),
      Some(<< <<"content-type", "application/json">> >>),
      Some(<< <<"Content-Length", 99>> >>),
      Some(<< <<"content-length", 3>>, <<"Content-Type", "text/plain">> >>) }

\* bodies given to invokePost directly
PostBodies == {"", "a=1"}

\* String.prototype.toLowerCase() on the header names in use
toLowerCase(name) ==
    CASE name = "Content-Type" -> "content-type"
      [] name = "Content-Length" -> "content-length"
      [] name = "X-Test" -> "x-test"
      [] OTHER -> name

\* querystring.stringify(postArgs) for keys and values that need no escaping
RECURSIVE stringify(_)
stringify(args) ==
    IF args = << >> THEN ""
    ELSE LET pair == Head(args)[1] \o "=" \o Head(args)[2]
         IN  IF Len(args) = 1 THEN pair
             ELSE pair \o "&" \o stringify(Tail(args))

\* body.byteLength of Buffer.from(str) for an ASCII string
byteLength(str) == Len(str)

\* the object o has a property of that name
Has(o, name) == \E i \in 1..Len(o) : o[i][1] = name

\* the value of property name in the object o, which has it
Get(o, name) == o[CHOOSE i \in 1..Len(o) : o[i][1] = name][2]

\* { ...a, ...b } and Object.assign(a, b): the properties of a in their
\* order, with the values b gives them, then the properties only b has
ObjectAssign(a, b) ==
    LET NotInA(p) == ~Has(a, p[1])
    IN  [i \in 1..Len(a) |->
            IF Has(b, a[i][1]) THEN <<a[i][1], Get(b, a[i][1])>> ELSE a[i]]
        \o SelectSeq(b, NotInA)

\* the header the transport sends under a name: http.ClientRequest sets the
\* properties of the headers object in order and matches names without
\* regard to case, so the last property of that name wins
HeaderSent(headers, lname) ==
    LET at == {i \in 1..Len(headers) : toLowerCase(headers[i][1]) = lname}
    IN  IF at = {} THEN Undefined
        ELSE Some(headers[CHOOSE i \in at : \A j \in at : j <= i][2])

\* invokePost(path, body, headers): headers go to the transport as given
invokePost(body, headers) ==
    [method |-> "POST", body |-> body, headers |-> headers]

\* invokeWebMethodPost(webMethodName, postArgs, headers) (callWebMethodPost in
\* the earliest class)
invokeWebMethodPost(postArgs, headers) ==
    LET bodyStr == IF postArgs.defined THEN stringify(postArgs.value) ELSE ""
        body == bodyStr
        postHeaders == << <<"Content-Type", "application/x-www-form-urlencoded">>,
                          <<"Content-Length", byteLength(body)>> >>
    IN  invokePost(body, Some(IF headers.defined
                              THEN ObjectAssign(postHeaders, headers.value)
                              ELSE postHeaders))

\* a WebApiClient of any of the three classes
PostInit ==
    /\ postVariant \in WebApiClientVariants
    /\ postCall = [entry |-> "none"]
    /\ postRequest = [method |-> "none"]
    /\ proxyOpts = Undefined
    /\ sslOpts = Undefined
    /\ NotDispatched
    /\ NotInvoked /\ timeoutOpt = 0 /\ tokenKind = "ok"
    /\ NoWebClient
    /\ NoWebApiClient
    /\ NoWebError
    /\ NoWait
    /\ NoLoads
    /\ NoConcurrentCalls

\* a subclass calls invokeWebMethodPost
PostWebMethod ==
    /\ postCall.entry = "none"
    /\ \E postArgs \in PostArgsSet, headers \in PostCallerHeaders :
          /\ postVariant # "part_002" => postArgs.defined
          /\ postCall' = [entry |-> "invokeWebMethodPost", postArgs |-> postArgs,
                          headers |-> headers]
          /\ postRequest' = invokeWebMethodPost(postArgs, headers)
    /\ UNCHANGED <<postVariant, outsidePost>>

\* a subclass calls invokePost with a body it encoded itself
PostRaw ==
    /\ postCall.entry = "none"
    /\ \E body \in PostBodies, headers \in PostCallerHeaders :
          /\ postCall' = [entry |-> "invokePost", body |-> body, headers |-> headers]
          /\ postRequest' = invokePost(body, headers)
    /\ UNCHANGED <<postVariant, outsidePost>>

PostNext == PostWebMethod \/ PostRaw

PostSpec == PostInit /\ [][PostNext]_vars

(***************************************************************************)
(* HttpClient.WebError: the accessors object and requestObject             *)
(***************************************************************************)
\* the variables of everything but the WebError
outsideObj == <<coreVars, postVars, waitVars, guardVars, concVars>>

\* headers objects of a request or a response, as the sequence of their
\* properties
WebErrorHeaders ==
    { << >>,
      << <<"content-type", "application/json">> >>,
      << <<"X-Test", "test">>, <<"Content-Type", "application/json">> >>,
      << <<"content-type", "text/html">> >>,
      << <<"Content-Type", "text/html">> >> }

\* bodies, as the text of the Buffer
WebErrorBodies == {"{}", "<html>"}

Returned(value) == [kind |-> "value", value |-> value]
Thrown(name) == [kind |-> "error", error |-> name]

\* Object.keys(headers).find(header => header.toLowerCase() === "content-type"):
\* 0 stands for undefined
contentTypeHeaderName(headers) ==
    LET at == {i \in 1..Len(headers) : toLowerCase(headers[i][1]) = "content-type"}
    IN  IF at = {} THEN 0 ELSE CHOOSE i \in at : \A j \in at : i <= j

\* get object() and get requestObject(): the same code over the response's
\* and the request's headers and body
object(headers, body) ==
    LET name == contentTypeHeaderName(headers)
    IN  IF name # 0 /\ headers[name][2] # "application/json"
        THEN Thrown("InvalidOperationError")
        ELSE IF JSONparse(body).defined THEN Returned(JSONparse(body).value)
             ELSE Thrown("SyntaxError")

\* a WebError built over any request and response
ObjInit ==
    /\ weResponse \in [headers : WebErrorHeaders, body : WebErrorBodies]
    /\ weRequest \in [headers : WebErrorHeaders \ {<< <<"Content-Type", "text/html">> >>},
                      body : {"{}"}]
    /\ weObject = [kind |-> "unread"]
    /\ weRequestObject = [kind |-> "unread"]
    /\ proxyOpts = Undefined
    /\ sslOpts = Undefined
    /\ NotDispatched
    /\ NotInvoked /\ timeoutOpt = 0 /\ tokenKind = "ok"
    /\ NoWebClient
    /\ NoWebApiClient
    /\ NoPost
    /\ NoWait
    /\ NoLoads
    /\ NoConcurrentCalls

\* the caller reads error.object
ReadObject ==
    /\ weObject.kind = "unread"
    /\ weObject' = object(weResponse.headers, weResponse.body)
    /\ UNCHANGED <<weResponse, weRequest, weRequestObject, outsideObj>>

\* the caller reads error.requestObject
ReadRequestObject ==
    /\ weRequestObject.kind = "unread"
    /\ weRequestObject' = object(weRequest.headers, weRequest.body)
    /\ UNCHANGED <<weResponse, weRequest, weObject, outsideObj>>

ObjNext == ReadObject \/ ReadRequestObject

ObjSpec == ObjInit /\ [][ObjNext]_vars

(***************************************************************************)
(* WebApiClient: the wait-timeout handed to the limiter                    *)
(***************************************************************************)
\* the variables of everything but the limiter's calls
outsideWait == <<coreVars, postVars, objVars, guardVars, concVars>>

\* calls of accrueTokenLazy followed on one client
MaxAccrue == 2

\* opts.limit.timeout: any number
LimitTimeouts == {-1, 0, 1, 500, 3000}

\* a || b on numbers: b when a is 0 (or NaN), else a
OrElse(a, b) == IF a = 0 THEN b ELSE a

\* the first argument of accrueTokenLazy: this._limit.timeout || 500
accrueTimeout == OrElse(limitTimeout, 500)

\* a WebApiClient with a limit, of one of the two classes that use it
WaitInit ==
    /\ waitVariant \in {"part_002", "WebApiClient.ts"}
    /\ limitTimeout \in LimitTimeouts
    /\ accrued = << >>
    /\ proxyOpts = Undefined
    /\ sslOpts = Undefined
    /\ NotDispatched
    /\ NotInvoked /\ timeoutOpt = 0 /\ tokenKind = "ok"
    /\ NoWebClient
    /\ NoWebApiClient
    /\ NoPost
    /\ NoWebError
    /\ NoLoads
    /\ NoConcurrentCalls

\* invokeGet / invokePost reach accrueTokenLazy; only part_002 takes a
\* cancellation token, which it passes on as second argument
Accrue(method, withToken) ==
    /\ Len(accrued) < MaxAccrue
    /\ withToken => waitVariant = "part_002"
    /\ accrued' = Append(accrued, [method |-> method, withToken |-> withToken,
                                   timeout |-> accrueTimeout])
    /\ UNCHANGED <<waitVariant, limitTimeout, outsideWait>>

WaitNext == \E method \in {"GET", "POST"}, withToken \in BOOLEAN : Accrue(method, withToken)

WaitSpec == WaitInit /\ [][WaitNext]_vars

(***************************************************************************)
(* The module guard: the statements index.ts runs when it is loaded        *)
(***************************************************************************)
\* the variables of everything but the guard
outsideGuard == <<coreVars, postVars, objVars, waitVars, concVars>>

\* loads of the module in one process
MaxLoads == 3

\* packageVersion of the copies of the package that are loaded
PackageVersions == {"1.0.0", "1.0.1", "2.0.0"}

\* process.env.NODE_ALLOW_CONFLICT_MODULES
GuardEnvValues == {"undefined", "1", "0", "true"}

\* what one load did: recorded its version, warned, or threw
Loaded(version, result) == [version |-> version, result |-> result]

\* a guard that lets a second load of the same version pass in silence
Load_sameVersionPasses(packageVersion) ==
    /\ Len(loads) < MaxLoads
    /\ IF guardGlobal.defined
       THEN LET conflictVersion == guardGlobal.value
            IN  IF conflictVersion = packageVersion
                THEN /\ loads' = Append(loads, Loaded(packageVersion, "recorded"))
                     /\ UNCHANGED <<guardGlobal, warnings>>
                ELSE IF guardEnv = "1"
                THEN /\ warnings' = warnings + 1
                     /\ loads' = Append(loads, Loaded(packageVersion, "warned")
                                   @@ [conflictVersion |-> conflictVersion])
                     /\ UNCHANGED guardGlobal
                ELSE /\ loads' = Append(loads, Loaded(packageVersion, "threw")
                                   @@ [conflictVersion |-> conflictVersion])
                     /\ UNCHANGED <<guardGlobal, warnings>>
       ELSE /\ guardGlobal' = Some(packageVersion)
            /\ loads' = Append(loads, Loaded(packageVersion, "recorded"))
            /\ UNCHANGED warnings
    /\ UNCHANGED <<guardEnv, outsideGuard>>

\* a process in which the package has not been loaded
GuardInit ==
    /\ guardEnv \in GuardEnvValues
    /\ guardGlobal = Undefined
    /\ loads = << >>
    /\ warnings = 0
    /\ proxyOpts = Undefined
    /\ sslOpts = Undefined
    /\ NotDispatched
    /\ NotInvoked /\ timeoutOpt = 0 /\ tokenKind = "ok"
    /\ NoWebClient
    /\ NoWebApiClient
    /\ NoPost
    /\ NoWebError
    /\ NoWait
    /\ NoConcurrentCalls

\* a copy of the package is loaded: if (PACKAGE_GUARD in G) { ... } else
\* { G[PACKAGE_GUARD] = packageVersion; }
Load(packageVersion) ==
    /\ Len(loads) < MaxLoads
    /\ IF guardGlobal.defined
       THEN LET conflictVersion == guardGlobal.value
            IN  IF guardEnv = "1"
                THEN /\ warnings' = warnings + 1
                     /\ loads' = Append(loads, Loaded(packageVersion, "warned")
                                   @@ [conflictVersion |-> conflictVersion])
                     /\ UNCHANGED guardGlobal
                ELSE /\ loads' = Append(loads, Loaded(packageVersion, "threw")
                                   @@ [conflictVersion |-> conflictVersion])
                     /\ UNCHANGED <<guardGlobal, warnings>>
       ELSE /\ guardGlobal' = Some(packageVersion)
            /\ loads' = Append(loads, Loaded(packageVersion, "recorded"))
            /\ UNCHANGED warnings
    /\ UNCHANGED <<guardEnv, outsideGuard>>

GuardNext == \E packageVersion \in PackageVersions : Load(packageVersion)

GuardSpec == GuardInit /\ [][GuardNext]_vars

(***************************************************************************)
(* Concurrent calls on one client: each call of HttpClient.invoke has its  *)
(* own closure (isConnectTimeout, resolved, the request and its handlers), *)
(* each call of WebApiClient.invokeGet its own local limitToken            *)
(***************************************************************************)
\* the variables of everything but the concurrent calls
outsideConc == <<coreVars, postVars, objVars, waitVars, guardVars>>

\* calls in flight on one client at a time
MaxConcurrent == 2

ConcurrentIds == 1..MaxConcurrent

\* the closure of a call of HttpClient.invoke that has not been made
NoInvoke ==
    [socket |-> "none", resolved |-> FALSE, isConnectTimeout |-> FALSE,
     timeoutFired |-> FALSE, errorPending |-> FALSE,
     response |-> "none", statusCode |-> 0, outcome |-> "pending"]

\* a call of invokeGet that has not been made; limitToken 0 stands for null
NoWrapper == [pc |-> "idle", limitToken |-> 0, outcome |-> "pending"]

\* errorHandler of the closure h
errorHandlerOf(h) ==
    IF ~h.resolved
    THEN [h EXCEPT !.resolved = TRUE,
                   !.outcome = IF h.isConnectTimeout THEN "Connect Timeout"
                               ELSE "CommunicationError"]
    ELSE h

\* the "end" handler of the closure h
endHandlerOf(h) ==
    IF ~h.resolved
    THEN [h EXCEPT !.resolved = TRUE,
                   !.outcome = IF h.isConnectTimeout THEN "Connect Timeout"
                               ELSE IF IsSuccess(RespStatus(h.statusCode)) THEN "Response"
                               ELSE "WebError"]
    ELSE h

\* the timeout callback of the closure h: isConnectTimeout = true;
\* request.abort()
timeoutCallbackOf(h) ==
    [h EXCEPT !.isConnectTimeout = TRUE, !.timeoutFired = TRUE,
              !.socket = "closed", !.errorPending = (h.response = "none")]

\* one HttpClient, or one WebApiClient with a limit, before any call
ConcInit ==
    /\ \/ /\ invokes = [c \in ConcurrentIds |-> NoInvoke]
          /\ wrappers = << >>
       \/ /\ invokes = << >>
          /\ wrappers = [c \in ConcurrentIds |-> NoWrapper]
    /\ tokenCommits = << >>
    /\ proxyOpts = Undefined
    /\ sslOpts = Undefined
    /\ NotDispatched
    /\ NotInvoked /\ timeoutOpt = 0 /\ tokenKind = "ok"
    /\ NoWebClient
    /\ NoWebApiClient
    /\ NoPost
    /\ NoWebError
    /\ NoWait
    /\ NoLoads

\* invoke(cancellationToken, request) is called once more: a new closure, a
\* new request
ConcInvoke(c) ==
    /\ c \in DOMAIN invokes
    /\ invokes[c].socket = "none"
    /\ invokes' = [invokes EXCEPT ![c].socket = "open"]
    /\ UNCHANGED <<wrappers, tokenCommits, outsideConc>>

\* a timeout callback that keeps the flag in a field of the client, shared
\* by the calls in flight
ConcTimerExpire_sharedFlag(c) ==
    /\ c \in DOMAIN invokes
    /\ invokes[c].socket = "open"
    /\ ~invokes[c].timeoutFired
    /\ invokes' = [d \in DOMAIN invokes |->
                     IF d = c THEN timeoutCallbackOf(invokes[d])
                     ELSE IF invokes[d].socket = "none" THEN invokes[d]
                     ELSE [invokes[d] EXCEPT !.isConnectTimeout = TRUE]]
    /\ UNCHANGED <<wrappers, tokenCommits, outsideConc>>

\* the timer of call c expires
ConcTimerExpire(c) ==
    /\ c \in DOMAIN invokes
    /\ invokes[c].socket = "open"
    /\ ~invokes[c].timeoutFired
    /\ invokes' = [invokes EXCEPT ![c] = timeoutCallbackOf(invokes[c])]
    /\ UNCHANGED <<wrappers, tokenCommits, outsideConc>>

\* the request of call c emits "error": the transport failed, or the request
\* was aborted before a response
ConcRequestError(c) ==
    /\ c \in DOMAIN invokes
    /\ \/ invokes[c].socket = "open" /\ invokes[c].response = "none"
       \/ invokes[c].errorPending
    /\ invokes' = [invokes EXCEPT ![c] =
                     errorHandlerOf([invokes[c] EXCEPT !.socket = "closed",
                                                       !.errorPending = FALSE])]
    /\ UNCHANGED <<wrappers, tokenCommits, outsideConc>>

\* the response of call c begins
ConcResponseBegin(c, statusCode) ==
    /\ c \in DOMAIN invokes
    /\ invokes[c].socket = "open"
    /\ invokes[c].response = "none"
    /\ invokes' = [invokes EXCEPT ![c].response = "open", ![c].statusCode = statusCode]
    /\ UNCHANGED <<wrappers, tokenCommits, outsideConc>>

\* the response of call c ends
ConcResponseEnd(c) ==
    /\ c \in DOMAIN invokes
    /\ invokes[c].response = "open"
    /\ invokes' = [invokes EXCEPT ![c] =
                     endHandlerOf([invokes[c] EXCEPT !.response = "ended",
                                                     !.socket = "closed"])]
    /\ UNCHANGED <<wrappers, tokenCommits, outsideConc>>

\* invokeGet is called once more and waits for its token
WrapperInvoke(c) ==
    /\ c \in DOMAIN wrappers
    /\ wrappers[c].pc = "idle"
    /\ wrappers' = [wrappers EXCEPT ![c].pc = "waitToken"]
    /\ UNCHANGED <<invokes, tokenCommits, outsideConc>>

\* limitToken = await accrueTokenLazy(...): the limiter hands out a new token
WrapperGranted(c) ==
    /\ c \in DOMAIN wrappers
    /\ wrappers[c].pc = "waitToken"
    /\ tokenCommits' = Append(tokenCommits, 0)
    /\ wrappers' = [wrappers EXCEPT ![c].pc = "transport",
                                    ![c].limitToken = Len(tokenCommits) + 1]
    /\ UNCHANGED <<invokes, outsideConc>>

\* accrueTokenLazy rejects: the call ends without a token
WrapperRefused(c) ==
    /\ c \in DOMAIN wrappers
    /\ wrappers[c].pc = "waitToken"
    /\ wrappers' = [wrappers EXCEPT ![c].pc = "done", ![c].outcome = "LimitError"]
    /\ UNCHANGED <<invokes, tokenCommits, outsideConc>>

\* the transport settles the call: finally { limitToken.commit(); }
WrapperFinally(c, settled) ==
    /\ c \in DOMAIN wrappers
    /\ wrappers[c].pc = "transport"
    /\ tokenCommits' = [tokenCommits EXCEPT ![wrappers[c].limitToken] = @ + 1]
    /\ wrappers' = [wrappers EXCEPT ![c].pc = "done", ![c].outcome = settled]
    /\ UNCHANGED <<invokes, outsideConc>>

ConcNext ==
    \E c \in ConcurrentIds :
        \/ ConcInvoke(c)
        \/ ConcTimerExpire(c)
        \/ ConcRequestError(c)
        \/ \E statusCode \in {200, 404} : ConcResponseBegin(c, statusCode)
        \/ ConcResponseEnd(c)
        \/ WrapperInvoke(c)
        \/ WrapperGranted(c)
        \/ WrapperRefused(c)
        \/ \E settled \in {"value", "WebError"} : WrapperFinally(c, settled)

ConcSpec == ConcInit /\ [][ConcNext]_vars

(***************************************************************************)
(* Properties                                                              *)
(***************************************************************************)
Settled == outcome.kind # "pending"

\* C1: whatever the order of the completion events, the code calls resolve /
\* reject at most once per call, and once the promise has an outcome no
\* later event changes it.
SettledAtMostOnce ==
    [][settleCalls' <= 1 /\ (Settled => outcome' = outcome)]_vars

\* C1 witness: the call settled and a completion event arrived afterwards.
SettledThenLateEvent == settleCalls = 1 /\ Settled /\ lateEvent

\* C2: under fair scheduling of the timer and of the transport's events,
\* every call of invoke eventually settles.
EventuallySettles == called ~> Settled

\* C2 witness: the timer fired while a response was partially received and
\* the call settled.
SettledAfterTimeoutMidResponse ==
    timerPhase = "midResponse" /\ Len(delivered) > 0 /\ Settled

\* C3: a call made with an already cancelled token fails with the token's
\* cancellation error; no request is created, no body written, no timer
\* armed and no cancel listener registered.
PreCancelledNoIO ==
    preCancelled =>
        /\ outcome = TokenCancelledError
        /\ request.created = 0
        /\ request.written = << >>
        /\ ~request.ended
        /\ request.timeout = 0
        /\ addCount = 0
        /\ listeners = {}

\* C3 witness: invoke was called with a cancelled token and a body to send.
PreCancelledCall == preCancelled /\ called /\ req.body.defined /\ Settled

\* C4: a call cancelled after dispatch and before it was resolved fails with
\* CancelledError, whatever the abort triggers afterwards.
CancelInFlightFails ==
    cancelledInFlight => outcome.kind = "CancelledError"

\* C4 witness: cancelled in flight, and the abort's transport event arrived.
CancelledThenTransportEvent == cancelledInFlight /\ lateEvent

\* C5 (as claimed): for a call cancelled in flight, abort is invoked exactly
\* once over the lifetime of the call.
AbortedExactlyOnce ==
    cancelledInFlight => request.abortCount = 1

\* C5 witness: a call cancelled in flight whose request was aborted once.
CancelledAbortedOnce == cancelledInFlight /\ request.abortCount = 1

StatusDecides ==
    /\ (outcome.kind = "Response") <=> (response.statusCode < 400)
    /\ (outcome.kind = "WebError") <=> (response.statusCode >= 400)

\* C6: when the peer completes the response on a call no other completion
\* source has resolved, the call resolves with a Response iff the status is
\* below 400 and rejects with WebError iff it is 400 or above.
StatusDecidesOutcome == endedUnresolved = "completed" => StatusDecides

\* C6 witness: a 301 response completed first and the call resolved with it.
Resolved301 ==
    /\ endedUnresolved = "completed"
    /\ response.statusCode = 301
    /\ outcome.kind = "Response"
    /\ outcome.body = BufferConcat(delivered)

\* C7: a WebError carries the request's method, headers (empty mapping when
\* none given) and body (empty buffer when none given) and the response's
\* status, description, headers and body as received.
WebErrorCarriesRoundTrip ==
    outcome.kind = "WebError" =>
        /\ outcome.method = req.method
        /\ outcome.requestHeaders =
              (IF req.headers.defined THEN req.headers.value ELSE {})
        /\ outcome.requestBody =
              (IF req.body.defined THEN req.body.value ELSE << >>)
        /\ outcome.statusCode = response.statusCode
        /\ outcome.statusDescription = response.statusMessage
        /\ outcome.headers = response.headers
        /\ outcome.body = BufferConcat(delivered)

\* C7 witness: a WebError for a request without headers and body, whose
\* response body arrived in two chunks.
WebErrorNoHeadersTwoChunks ==
    /\ outcome.kind = "WebError"
    /\ ~req.headers.defined
    /\ ~req.body.defined
    /\ Len(delivered) = 2
    /\ delivered[1] # delivered[2]

\* C8 (as claimed): every CommunicationError carries the underlying
\* transport error as its inner cause.
CommunicationErrorHasCause ==
    outcome.kind = "CommunicationError" => outcome.innerError # NoError

\* C8 witness: a CommunicationError of the timeout path that has its cause.
TimeoutErrorWithCause ==
    /\ outcome.kind = "CommunicationError"
    /\ timerPhase = "beforeResponse"
    /\ outcome.innerError \in AbortErrors

ConnectTimeoutOutcome ==
    /\ outcome.kind = "CommunicationError"
    /\ outcome.message = ConnectTimeoutMsg

ConnectTimeoutOnlyBeforeResponse ==
    ConnectTimeoutOutcome => timerPhase = "beforeResponse"

\* C11 witness: "Connect Timeout" reported for a timer that expired before
\* the response started, the response never having begun.
ConnectTimeoutNoResponse ==
    /\ ConnectTimeoutOutcome
    /\ timerPhase = "beforeResponse"
    /\ response.state = "none"
    /\ delivered = << >>

\* C13 (as claimed): a client constructed without a timeout arms no timer and
\* no call of it is timed out.
NoTimeoutOptNoTimer ==
    timeoutOpt = 0 => request.timeout = 0 /\ timerPhase = "never"

\* C13 (amended): a client constructed without a timeout enforces
\* DEFAULT_TIMEOUT: every dispatched request is armed with the configured
\* timeout, or with 60000 ms when none was given.
TimerArmedWithDefault ==
    request.created > 0 =>
        request.timeout = (IF timeoutOpt = 0 THEN 60000 ELSE timeoutOpt)

\* C13 witness: a client constructed without a timeout whose call was timed
\* out and aborted.
DefaultTimeoutEnforced ==
    /\ timeoutOpt = 0
    /\ timerPhase = "beforeResponse"
    /\ request.abortCount = 1
    /\ ConnectTimeoutOutcome

\* C14 (as claimed): after the call has settled no cancel listener of the
\* call remains registered; each registered listener was removed once.
ListenerRemovedWhenSettled ==
    Settled => listeners = {} /\ removeCount = addCount

\* C14 witness: a cancelled call, whose listener was removed exactly once.
ListenerRemovedByCancel ==
    /\ cancelledInFlight
    /\ addCount = 1
    /\ removeCount = 1
    /\ listeners = {}

\* C15: once the call has settled the timeout callback never runs.
NoTimeoutAfterSettled ==
    [][Settled => request'.timeoutFired = request.timeoutFired]_vars

\* C15 witness: a settled call whose timer was armed and had not fired.
SettledWithUnfiredTimer ==
    /\ Settled
    /\ request.timeout > 0
    /\ ~request.timeoutFired
    /\ request.socket = "closed"
    /\ outcome.kind = "Response"

\* the request was handed to the configured http proxy
ViaHttpProxy ==
    /\ transport # "none"
    /\ proxyOpts.defined
    /\ proxyOpts.value.type = "http"

\* C16 (as claimed): through an http proxy the request goes to the proxy's
\* host and port, its path is the absolute target URL, and its Host header is
\* the target's host whatever headers the caller supplied.
ProxyRequestForTarget ==
    ViaHttpProxy =>
        /\ reqOpts.host = proxyOpts.value.host
        /\ reqOpts.port = proxyOpts.value.port
        /\ reqOpts.path = dispatched.url.href
        /\ \A h \in reqOpts.headers.value :
               h[1] = "Host" => h[2] = dispatched.url.host
        /\ \E h \in reqOpts.headers.value : h[1] = "Host"

\* C16 witness: a proxied request whose caller supplied no Host header and
\* whose Host header is the target's host, port included.
ProxyRequestHostOfTarget ==
    /\ ViaHttpProxy
    /\ dispatched.headers = Some({<<"test", "test">>})
    /\ reqOpts.path = "http://target.example:8080/a?b=1"
    /\ <<"Host", "target.example:8080">> \in reqOpts.headers.value

\* C12 (as claimed): in every implementation, when the timer of an unsettled
\* invoke expires the request in flight is aborted.
LegacyTimerExpiryAborts ==
    [][(~wcRequest.timeoutFired /\ wcRequest'.timeoutFired
            /\ wcOutcome.kind = "pending")
       => wcRequest'.aborted]_vars

\* C12 witness: the timer of the later WebClient revision expired on an
\* unsettled call and the request was aborted.
LegacyTimerAborted ==
    /\ wcVariant = "part_001"
    /\ wcRequest.timeoutFired
    /\ wcRequest.aborted
    /\ wcIsConnecTimeout
    /\ wcOutcome.kind = "pending"

\* C12 for HttpClient: the timeout callback of an unresolved call aborts the
\* request.
TimerExpiryAborts ==
    [][(~request.timeoutFired /\ request'.timeoutFired /\ ~resolved)
       => request'.aborted]_vars

\* C17: a quota token acquired by invokeGet / invokePost is committed exactly
\* once when the call ends, whatever the exit path, and never before; no
\* commit is made without a token.
TokenCommittedOnce ==
    \A c \in DOMAIN calls :
        /\ calls[c].commits <= 1
        /\ calls[c].commits = 1 => calls[c].limitToken
        /\ calls[c].pc # "done" => calls[c].commits = 0
        /\ (calls[c].pc = "done" /\ calls[c].limitToken) => calls[c].commits = 1

\* C17 witness: two calls that held a token and committed it once, one ended
\* by a JSON decoding failure and one by a URL construction failure.
TokenCommittedOnFailures ==
    /\ calls[1].limitToken /\ calls[1].commits = 1
    /\ calls[1].outcome = ApiError("SyntaxError")
    /\ calls[2].limitToken /\ calls[2].commits = 1
    /\ calls[2].outcome = ApiError("TypeError")

\* C18: a call whose token acquisition failed is rejected with that failure,
\* never calls the transport and commits no token.
AcquireFailureRejects ==
    \A c \in DOMAIN calls :
        calls[c].acquireFailed # NoError =>
            /\ calls[c].pc = "done"
            /\ calls[c].outcome = ApiError(calls[c].acquireFailed)
            /\ calls[c].transportCalls = 0
            /\ ~calls[c].limitToken
            /\ calls[c].commits = 0

\* C18 witness: one call rejected by the limiter's wait-timeout and one by the
\* caller's cancellation during the wait.
AcquireFailedBothWays ==
    /\ calls[1].acquireFailed = "LimitError"
    /\ calls[2].acquireFailed = "CancelledError"
    /\ calls[2].outcome = ApiError("CancelledError")

\* C19 (as claimed): a call made on a disposed client fails with Disposed,
\* without waiting for a token and without calling the transport.
DisposedClientRejects ==
    \A c \in DOMAIN calls :
        calls[c].startedIn = "Disposed" =>
            /\ calls[c].pc = "done"
            /\ calls[c].outcome = ApiError("Disposed")
            /\ calls[c].transportCalls = 0
            /\ ~calls[c].limitToken
            /\ calls[c].acquireFailed = NoError

\* C19 witness: a call made on a disposed client of the later revision, failed
\* with Disposed.
DisposedClientRejected ==
    /\ apiVariant = "part_002"
    /\ lifecycle = "Disposed"
    /\ calls[1].startedIn = "Disposed"
    /\ calls[1].outcome = ApiError("Disposed")

\* C20 (as claimed): the lifecycle only moves Active -> Disposing -> Disposed,
\* a step of disposal leaves the calls in flight as they are, and a call
\* started once disposal has begun ends with Disposed.
DisposalLifecycle ==
    [][/\ lifecycle' # lifecycle =>
            /\ <<lifecycle, lifecycle'>> \in
                   {<<"Active", "Disposing">>, <<"Disposing", "Disposed">>}
            /\ calls' = calls
       /\ \A c \in DOMAIN calls' :
              calls'[c].startedIn \in {"Disposing", "Disposed"} =>
                  calls'[c].outcome = ApiError("Disposed")]_vars

\* C20 witness: on the later revision, a call in flight when disposal began
\* got its response, and a call started during disposal failed with Disposed.
InFlightCompletedWhileDisposing ==
    /\ apiVariant = "part_002"
    /\ lifecycle # "Active"
    /\ calls[1].startedIn = "Active"
    /\ calls[1].outcome.kind = "value"
    /\ calls[2].startedIn = "Disposing"
    /\ calls[2].outcome = ApiError("Disposed")

\* C19 and C20 restricted to the later revision (part_002), whose entry check
\* exists: calls started once disposal has begun end with Disposed.
GuardedRevisionRejects ==
    apiVariant = "part_002" =>
        \A c \in DOMAIN calls :
            calls[c].startedIn \in {"Disposing", "Disposed"} =>
                /\ calls[c].outcome = ApiError("Disposed")
                /\ calls[c].transportCalls = 0

\* C21 (as claimed): however often dispose() is called, the limiter is
\* disposed exactly once; later calls do not touch it.
LimiterDisposedOnce ==
    (apiHasLimit /\ disposeCalls >= 1) => limitDisposeCount = 1

\* C21 witness: on the later revision dispose() was called twice and the
\* limiter was disposed once.
DisposedTwiceLimiterOnce ==
    /\ apiVariant = "part_002"
    /\ apiHasLimit
    /\ disposeCalls = 2
    /\ limitDisposeCount = 1

\* C21 restricted to the later revision (part_002), whose dispose() is the
\* one of Disposable.
GuardedRevisionDisposesOnce ==
    (apiVariant = "part_002" /\ apiHasLimit /\ disposeCalls >= 1)
        => limitDisposeCount = 1

\* calls that reached the transport
ReachedTransport == {c \in DOMAIN calls : calls[c].transportCalls > 0}

\* C22 (as claimed): through a client whose limiter allows N tokens, at most
\* N calls reach the transport, and a call that got no token ends with the
\* limiter's rejection without reaching the transport.
QuotaBoundsTransport ==
    apiHasLimit =>
        /\ Cardinality(ReachedTransport) <= limitTokens
        /\ \A c \in DOMAIN calls :
               (calls[c].pc = "done" /\ ~calls[c].limitToken
                    /\ calls[c].startedIn = "Active")
               => /\ calls[c].outcome \in {ApiError("LimitError"),
                                          ApiError("CancelledError")}
                  /\ calls[c].transportCalls = 0

\* C22 witness: the limiter allows one token for two calls; one call got the
\* token and its response, the other ended with the limiter's timeout.
OneTokenTwoCalls ==
    /\ apiVariant = "WebApiClient.ts"
    /\ limitTokens = 1
    /\ calls[1].limitToken /\ calls[1].outcome.kind = "value"
    /\ calls[2].outcome = ApiError("LimitError")
    /\ calls[2].transportCalls = 0

\* C22 restricted to the revisions whose invokeGet waits for a token.
AcquiringRevisionsBoundTransport ==
    AcquiresToken => Cardinality(ReachedTransport) <= limitTokens

\* C23 (as claimed): a call whose caller cancels while it waits for its token
\* leaves the wait only by failing with the cancellation error, and never
\* calls the transport.
CancelEndsWait ==
    [][\A c \in DOMAIN calls :
          (calls[c].pc = "waitToken" /\ calls[c].cancel = "cancelled") =>
              \/ calls'[c] = calls[c]
              \/ /\ calls'[c].pc = "done"
                 /\ calls'[c].outcome = ApiError("CancelledError")
                 /\ calls'[c].transportCalls = 0]_vars

\* C23 witness: on the later revision a call was cancelled during the wait
\* and failed with the cancellation error before the limiter's timeout.
CancelledDuringWait ==
    /\ apiVariant = "part_002"
    /\ calls[1].acquireFailed = "CancelledError"
    /\ calls[1].outcome = ApiError("CancelledError")
    /\ calls[1].transportCalls = 0
    /\ calls[1].commits = 0

\* C23 restricted to the later revision (part_002), which passes the token to
\* accrueTokenLazy.
PassedTokenEndsWait ==
    [][PassesCancellation =>
         \A c \in DOMAIN calls :
            (calls[c].pc = "waitToken" /\ calls[c].cancel = "cancelled") =>
                \/ calls'[c] = calls[c]
                \/ /\ calls'[c].pc = "done"
                   /\ calls'[c].outcome = ApiError("CancelledError")
                   /\ calls'[c].transportCalls = 0]_vars

\* C24: when the transport rejects with an error the call rejects with that
\* same error, having committed its token if it held one.
TransportFailurePropagated ==
    \A c \in DOMAIN calls :
        calls[c].transportFailed # NoError =>
            /\ calls[c].pc = "done"
            /\ calls[c].outcome = ApiError(calls[c].transportFailed)
            /\ calls[c].limitToken => calls[c].commits = 1

\* C24 witness: a call holding a token whose transport failed with WebError.
WebErrorThroughWrapper ==
    /\ calls[1].transportFailed = "WebError"
    /\ calls[1].limitToken
    /\ calls[1].commits = 1
    /\ calls[1].outcome = ApiError("WebError")

\* C25: every failure of HttpClient.invoke is a CommunicationError, a WebError
\* or a CancelledError; no other kind of error reaches the caller.
OnlyDeclaredFailures ==
    (Settled /\ outcome.kind # "Response") =>
        outcome.kind \in {"CommunicationError", "WebError", "CancelledError"}

\* C25 witness: a call with a live token for a URL the transport refuses
\* ended with the error http.request threw.
RawErrorReachedCaller ==
    /\ called
    /\ tokenKind = "ok"
    /\ ~preCancelled
    /\ RequestThrows(req)
    /\ outcome = TypeError("Protocol not supported")

\* C25 restricted to calls that got a request from the transport: their
\* failures are of the three declared kinds.
DispatchedFailuresDeclared ==
    (Settled /\ outcome.kind # "Response" /\ request.created > 0) =>
        outcome.kind \in {"CommunicationError", "WebError", "CancelledError"}

\* C26: a call made without a cancellation token is dispatched like a call
\* whose token is never cancelled: it creates its request and does not fail
\* for want of a token.
NoTokenDispatches ==
    (called /\ tokenKind = "undefined" /\ ~RequestThrows(req)) =>
        /\ request.created = 1
        /\ outcome.kind # "TypeError"

\* C26 witness: a call without a token for a URL the transport accepts was
\* rejected before any request was created.
NoTokenRejected ==
    /\ called
    /\ tokenKind = "undefined"
    /\ ~RequestThrows(req)
    /\ outcome.kind = "TypeError"
    /\ request.created = 0
    /\ listeners = {}

\* C27: every call that is not pre-cancelled creates exactly one outbound
\* request, and never a second one.
ExactlyOneRequest ==
    (called /\ ~preCancelled) => request.created = 1

\* C27 witness: a call that was not pre-cancelled settled without a request.
SettledWithoutRequest ==
    /\ called
    /\ ~preCancelled
    /\ Settled
    /\ request.created = 0

\* C27 for calls that pass the token check and whose URL the transport
\* accepts: exactly one request, whatever events follow; never more than one
\* for any call.
OneRequestWhenDispatched ==
    /\ request.created <= 1
    /\ (called /\ tokenKind # "undefined" /\ ~preCancelled /\ ~RequestThrows(req)) =>
            request.created = 1

\* a legacy response that completed while its call was unsettled: no abort
\* and no timer expiry came before the peer's end
LegacyCompleted ==
    /\ wcResponse.state = "ended"
    /\ ~wcRequest.aborted
    /\ ~wcRequest.timeoutFired

\* C28: the legacy WebClient.invoke resolves a completed response only when
\* its status is exactly 200, with the buffered body; with every other status
\* it rejects with a WebError whose errorData is the fully buffered response
\* body, a Buffer holding the chunks received.
LegacyOnly200Succeeds ==
    LET finalData == BufferConcat(wcResponseDataChunks)
    IN  /\ wcOutcome.kind = "Buffer" =>
              /\ wcResponse.statusCode = 200
              /\ wcOutcome.bytes = finalData
        /\ wcOutcome.kind = "WebError" =>
              /\ wcResponse.statusCode # 200
              /\ wcOutcome.statusCode = wcResponse.statusCode
              /\ wcOutcome.errorData = BufferValue(finalData)
        /\ LegacyCompleted =>
              wcOutcome.kind = IF wcResponse.statusCode = 200 THEN "Buffer" ELSE "WebError"

\* C28 witness: a 404 whose body held a byte that is not valid UTF-8 was
\* rejected by WebClient.ts with a WebError.
LegacyWebErrorWithBinaryBody ==
    /\ wcVariant = "WebClient.ts"
    /\ LegacyCompleted
    /\ wcResponse.statusCode = 404
    /\ wcResponseDataChunks = <<<<70>>, <<255>>>>
    /\ wcOutcome.kind = "WebError"

\* C28 without the type of errorData: in both revisions only 200 succeeds and
\* every other status rejects with a WebError; in part_001 errorData is the
\* buffered body.
LegacyStatusPolicy ==
    LET finalData == BufferConcat(wcResponseDataChunks)
    IN  /\ wcOutcome.kind = "Buffer" =>
              /\ wcResponse.statusCode = 200
              /\ wcOutcome.bytes = finalData
        /\ wcOutcome.kind = "WebError" =>
              /\ wcResponse.statusCode # 200
              /\ wcOutcome.statusCode = wcResponse.statusCode
              /\ wcVariant = "part_001" => wcOutcome.errorData = BufferValue(finalData)
        /\ LegacyCompleted =>
              wcOutcome.kind = IF wcResponse.statusCode = 200 THEN "Buffer" ELSE "WebError"

\* the client was constructed with a socks5 proxy
Socks5Configured ==
    /\ proxyOpts.defined
    /\ proxyOpts.value.type = "socks5"

\* C29: with a socks5 proxy configured no request is handed to the transport:
\* the call is refused as unsupported instead of being dispatched directly.
Socks5NeverDispatched ==
    Socks5Configured =>
        /\ transport = "none"
        /\ reqOpts = NoReqOpts

\* C29 witness: with a socks5 proxy configured a request went straight to
\* the target's host.
Socks5DispatchedDirectly ==
    /\ Socks5Configured
    /\ transport # "none"
    /\ reqOpts.host = dispatched.url.hostname
    /\ reqOpts.path = dispatched.url.pathname \o dispatched.url.search

\* what every successful Response holds whatever its status message is
\* called: produced after the peer's end, with the status code, the headers
\* and the chunks received, concatenated in arrival order
ResponseOfCompletedExchange ==
    /\ response.state = "ended"
    /\ endedUnresolved # "never"
    /\ outcome.statusCode = response.statusCode
    /\ outcome.headers = response.headers
    /\ outcome.body = BufferConcat(delivered)

\* C30: a successful Response exposes the status code as statusCode, the
\* status message as statusMessage, the headers and the fully buffered body;
\* it is produced only after the peer signalled end, and its body is the
\* concatenation of the chunks in arrival order.
ResponseExposesStatusMessage ==
    outcome.kind = "Response" =>
        /\ ResponseOfCompletedExchange
        /\ "statusMessage" \in DOMAIN outcome
        /\ outcome.statusMessage = response.statusMessage

\* C30 witness: a call resolved with the 301 response "Fake" whose body came
\* in two chunks.
ResolvedWithStatusText ==
    /\ outcome.kind = "Response"
    /\ response.statusCode = 301
    /\ response.statusMessage = "Fake"
    /\ delivered = <<<<2>>, <<1>>>>
    /\ outcome.body = <<2, 1>>

\* C30 with the name the code gives the field: the status message is exposed
\* as statusDescription.
ResponseExposesStatusDescription ==
    outcome.kind = "Response" =>
        /\ ResponseOfCompletedExchange
        /\ DOMAIN outcome = {"kind", "statusCode", "statusDescription", "headers", "body"}
        /\ outcome.statusDescription = response.statusMessage

\* C33: when the cancel listener fires on an unresolved call and the token's
\* throwIfCancellationRequested does not throw, the call fails with the
\* CancelledError "Cancelled by user", and stays failed with it.
BrokenTokenStillCancels ==
    (cancelledInFlight /\ tokenKind = "broken") =>
        outcome = CancelledError(<<"Cancelled by user">>)

\* C33 witness: a call with such a token was cancelled while its response
\* was being received.
BrokenTokenCancelledMidResponse ==
    /\ tokenKind = "broken"
    /\ cancelledInFlight
    /\ response.state # "none"
    /\ Len(delivered) > 0
    /\ outcome = CancelledError(<<"Cancelled by user">>)

\* C34: once the timeout callback has run on an unresolved call, a response
\* that completes afterwards is not delivered: the end handler rejects with
\* the CommunicationError "Connect Timeout" whatever the status and the
\* body, and the call never ends with a Response or a WebError.
EndAfterTimeoutIsConnectTimeout ==
    /\ (timerPhase # "never" /\ endedUnresolved # "never") =>
            outcome = CommunicationError(ConnectTimeoutMsg, NoError)
    /\ (timerPhase # "never" /\ Settled) =>
            outcome.kind \notin {"Response", "WebError"}

\* C34 witness: the timer fired in the middle of a 200 response, whose end
\* then settled the call with "Connect Timeout".
EndOf200AfterTimeout ==
    /\ timerPhase = "midResponse"
    /\ endedUnresolved = "cutOff"
    /\ response.statusCode = 200
    /\ Len(delivered) > 0
    /\ outcome = CommunicationError(ConnectTimeoutMsg, NoError)

\* C35: when the token is cancelled after the call has settled, the outcome
\* stays what it was, yet the listener deregisters itself and calls abort on
\* the finished request.
CancelAfterSettledStillAborts ==
    [][(Settled /\ "cb" \in listeners /\ ~cancelRequested /\ cancelRequested')
        => /\ outcome' = outcome
           /\ "cb" \notin listeners'
           /\ removeCount' = removeCount + 1
           /\ request'.abortCount = request.abortCount + 1
           /\ request'.aborted]_vars

\* C35 witness: a call that resolved with a Response was cancelled
\* afterwards; its request was aborted once, by the listener.
AbortedAfterResponse ==
    /\ outcome.kind = "Response"
    /\ cancelRequested
    /\ ~cancelledInFlight
    /\ listeners = {}
    /\ removeCount = 1
    /\ request.abortCount = 1

\* C36: no call hands a request to the transport after dispose() has been
\* called; in particular a call that passed the check at entry and waited for
\* its quota token does not go on to the transport once disposal has begun.
NoDispatchAfterDispose ==
    \A c \in DOMAIN calls :
        calls[c].pc = "transport" => calls[c].dispatchedIn = "Active"

\* C36 witness: a call of part_002 entered while the client was active,
\* waited for its token and called the transport while the client was
\* disposing.
DispatchedWhileDisposing ==
    /\ apiVariant = "part_002"
    /\ calls[1].startedIn = "Active"
    /\ calls[1].limitToken
    /\ calls[1].pc = "transport"
    /\ calls[1].dispatchedIn = "Disposing"

\* C36 for the calls of part_002 that wait for no token: they reach the
\* transport only while the client is active.
UnlimitedDispatchOnlyWhenActive ==
    \A c \in DOMAIN calls :
        (apiVariant = "part_002" /\ ~calls[c].limitToken /\ calls[c].pc = "transport")
            => calls[c].dispatchedIn = "Active"

\* the TLS properties of a request's options
TlsKeys == {"ca", "rejectUnauthorized", "pfx", "passphrase", "key", "cert"}

\* C37: the TLS material of sslOpts is on the outgoing request only when it
\* is dispatched directly to an https target, where it is the material
\* configured; never for an http target nor through the http proxy; and with
\* pfx in the options key and cert are not set.
TlsOnlyOnDirectHttps ==
    LET set == DOMAIN reqOpts \cap TlsKeys
    IN  /\ set # {} =>
              /\ transport = "https"
              /\ reqOpts.protocol = "https:"
              /\ dispatched.url.protocol = "https:"
              /\ ~ViaHttpProxy
              /\ sslOpts.defined
              /\ \A k \in set : reqOpts[k] = sslOpts.value[k]
        /\ "pfx" \in set => set \cap {"key", "cert"} = {}
        /\ (transport = "https" /\ sslOpts.defined) =>
              /\ DOMAIN sslOpts.value \cap {"ca", "rejectUnauthorized"} \subseteq set
              /\ set \cap {"pfx", "cert"} # {} <=>
                     DOMAIN sslOpts.value \cap {"pfx", "cert"} # {}

\* C37 witness: an https target dispatched directly with options holding both
\* credential forms: pfx and passphrase went to the transport, key and cert
\* did not.
PfxWithoutKeyAndCert ==
    /\ transport = "https"
    /\ ~ViaHttpProxy
    /\ sslOpts.defined
    /\ {"pfx", "key", "cert"} \subseteq DOMAIN sslOpts.value
    /\ DOMAIN reqOpts \cap TlsKeys = {"pfx", "passphrase"}

\* the headers of the request handed to the transport
PostHeaders == IF postRequest.headers.defined THEN postRequest.headers.value ELSE << >>

\* the POST request carries a Content-Type and a Content-Length: the caller's
\* when the caller's headers name them, else the defaults
CarriesContentHeaders ==
    LET given == IF postCall.headers.defined THEN postCall.headers.value ELSE << >>
        type == HeaderSent(given, "content-type")
        length == HeaderSent(given, "content-length")
    IN  /\ HeaderSent(PostHeaders, "content-type") =
              (IF type.defined THEN type
               ELSE Some("application/x-www-form-urlencoded"))
        /\ HeaderSent(PostHeaders, "content-length") =
              (IF length.defined THEN length
               ELSE Some(byteLength(postRequest.body)))

\* C31: every POST request WebApiClient hands to the transport carries a
\* Content-Type and a Content-Length header: the defaults
\* application/x-www-form-urlencoded and the body's byte length unless the
\* caller's headers override them, and then the caller's values.
PostCarriesContentHeaders ==
    postRequest.method = "POST" => CarriesContentHeaders

\* C31 witness: invokePost was called with an encoded body and no headers.
RawPostWithoutHeaders ==
    /\ postCall.entry = "invokePost"
    /\ postCall.body = "a=1"
    /\ postCall.headers = Undefined
    /\ postRequest.method = "POST"
    /\ postRequest.headers = Undefined

\* C31 for invokeWebMethodPost: its requests carry both headers, whatever
\* the case of the names the caller used.
WebMethodPostCarriesContentHeaders ==
    postCall.entry = "invokeWebMethodPost" =>
        /\ CarriesContentHeaders
        /\ postRequest.body =
              (IF postCall.postArgs.defined THEN stringify(postCall.postArgs.value) ELSE "")

\* the content type the headers state is JSON
IsJson(headers) == HeaderSent(headers, "content-type") = Some("application/json")

\* what the claim of C38 says of one accessor
JsonOnly(read, headers, body) ==
    read.kind # "unread" =>
        /\ ~IsJson(headers) => read = Thrown("InvalidOperationError")
        /\ read.kind = "value" =>
              /\ IsJson(headers)
              /\ read.value = JSONparse(body).value

\* C38: WebError.object and requestObject fail with InvalidOperationError
\* whenever the content type of the response / request is not JSON, and
\* return the JSON-decoded body only when it is JSON; the header name is
\* matched without regard to case.
ObjectOnlyForJson ==
    /\ JsonOnly(weObject, weResponse.headers, weResponse.body)
    /\ JsonOnly(weRequestObject, weRequest.headers, weRequest.body)

\* C38 witness: a response without a content-type header: reading object
\* returned the decoded body.
ObjectOfUntypedResponse ==
    /\ weResponse.headers = << >>
    /\ weResponse.body = "{}"
    /\ weObject = Returned(JSONparse("{}").value)

\* C38 for headers that state a content type: whatever the case of the
\* header's name, a type other than application/json gives
\* InvalidOperationError and the decoded body is returned for
\* application/json only.
TypedObjectOnlyForJson ==
    /\ contentTypeHeaderName(weResponse.headers) # 0 =>
          JsonOnly(weObject, weResponse.headers, weResponse.body)
    /\ contentTypeHeaderName(weRequest.headers) # 0 =>
          JsonOnly(weRequestObject, weRequest.headers, weRequest.body)

\* C39: the wait-timeout passed to the limiter is the configured
\* limit.timeout when that is a positive number and 500 otherwise; a
\* configured 0 is never passed as 0.
WaitTimeoutPositiveOrDefault ==
    \A i \in 1..Len(accrued) :
        /\ accrued[i].timeout = (IF limitTimeout > 0 THEN limitTimeout ELSE 500)
        /\ accrued[i].timeout # 0

\* C39 witness: a client configured with a negative wait-timeout acquired a
\* token for a POST, with a cancellation token.
AccruedWithNegativeTimeout ==
    /\ limitTimeout < 0
    /\ Len(accrued) > 0
    /\ accrued[1].method = "POST"
    /\ accrued[1].withToken

\* C39 for wait-timeouts that are not negative: a positive one is passed as
\* it is, 0 is replaced by 500; and no call ever passes 0.
WaitTimeoutNeverZero ==
    \A i \in 1..Len(accrued) :
        /\ accrued[i].timeout # 0
        /\ limitTimeout >= 0 =>
              accrued[i].timeout = (IF limitTimeout > 0 THEN limitTimeout ELSE 500)

\* C40: the first load of the package records its version under the guard
\* symbol; every later load finds the symbol and throws, or only warns when
\* NODE_ALLOW_CONFLICT_MODULES is "1", also when its version is the recorded
\* one; no later load overwrites the recorded version; so without that
\* setting the package is loaded at most once.
GuardAdmitsOneLoad ==
    /\ guardGlobal = (IF loads = << >> THEN Undefined ELSE Some(loads[1].version))
    /\ \A i \in 1..Len(loads) :
          IF i = 1 THEN loads[i].result = "recorded"
          ELSE /\ loads[i].result = (IF guardEnv = "1" THEN "warned" ELSE "threw")
               /\ loads[i].conflictVersion = loads[1].version
    /\ warnings = Cardinality({i \in 1..Len(loads) : loads[i].result = "warned"})
    /\ guardEnv # "1" =>
          Cardinality({i \in 1..Len(loads) : loads[i].result # "threw"}) <= 1

\* C40 witness: the same version was loaded a second time and the guard
\* threw; a third load of another version threw as well.
SameVersionLoadedTwice ==
    /\ Len(loads) = 3
    /\ loads[2].version = loads[1].version
    /\ loads[2].result = "threw"
    /\ loads[3].version # loads[1].version
    /\ loads[3].result = "threw"
    /\ guardGlobal = Some(loads[1].version)

\* C32: concurrent calls on one client are independent: an event of one call
\* of invoke (its timer, its transport error, its response) leaves the
\* latch, the timeout flag and the outcome of every other call as they were,
\* and a call of invokeGet commits the token it acquired itself and no other.
ConcurrentCallsIndependent ==
    [][/\ \A c, d \in DOMAIN invokes :
             (c # d /\ invokes'[c] # invokes[c]) => invokes'[d] = invokes[d]
       /\ \A c, d \in DOMAIN wrappers :
             (c # d /\ wrappers'[c] # wrappers[c]) => wrappers'[d] = wrappers[d]
       /\ \A t \in DOMAIN tokenCommits :
             tokenCommits'[t] # tokenCommits[t] =>
                 /\ tokenCommits[t] = 0
                 /\ \E c \in DOMAIN wrappers :
                       /\ wrappers[c].limitToken = t
                       /\ wrappers[c].pc = "transport"
                       /\ wrappers'[c].pc = "done"
                       /\ \A d \in DOMAIN wrappers :
                             wrappers[d].limitToken = t => d = c]_vars

\* C32 witness: of two calls in flight one timed out before its response
\* and the other resolved with its response.
OneTimedOutOtherResolved ==
    /\ DOMAIN invokes # {}
    /\ invokes[1].outcome = "Connect Timeout"
    /\ invokes[1].isConnectTimeout
    /\ invokes[2].outcome = "Response"
    /\ ~invokes[2].isConnectTimeout

=============================================================================
